---- MODULE Spec2Model ----
(***************************************************************************)
(* Verification model of the ingestion / taxonomy-reconciliation core of   *)
(* the Health Trends Analytics dashboard (React frontend + FastAPI         *)
(* backend).  The frontend pages are modelled from their source; the       *)
(* backend endpoints they call are modelled from the design document.      *)
(*                                                                         *)
(* Text is modelled as a sequence of one-character strings so that         *)
(* trimming, case folding and separator handling are real computations.    *)
(***************************************************************************)
EXTENDS Integers, Sequences, FiniteSets, TLC

\* the null column name / '' string
NoColumn == <<>>

-----------------------------------------------------------------------------
(* Text primitives                                                         *)

UpperChars == <<"A","B","C","D","E","F","G","H","I","J","K","L","M",
                "N","O","P","Q","R","S","T","U","V","W","X","Y","Z">>

LowerChars == <<"a","b","c","d","e","f","g","h","i","j","k","l","m",
                "n","o","p","q","r","s","t","u","v","w","x","y","z">>

\* the lower-case letter of every upper-case letter
LowerOf ==
  [c \in {UpperChars[i] : i \in 1..Len(UpperChars)} |->
     LowerChars[CHOOSE i \in 1..Len(UpperChars) : UpperChars[i] = c]]

\* String.prototype.toLowerCase / str.lower() on one character
LowerChar(c) == IF c \in DOMAIN LowerOf THEN LowerOf[c] ELSE c

ToLowerCase(s) == [i \in 1..Len(s) |-> LowerChar(s[i])]

\* the elements of a sequence, the values of a map
Range(f) == {f[x] : x \in DOMAIN f}

RECURSIVE TrimLeft(_)
TrimLeft(s) ==
  IF s # <<>> /\ Head(s) = " " THEN TrimLeft(Tail(s)) ELSE s

RECURSIVE TrimRight(_)
TrimRight(s) ==
  IF s # <<>> /\ s[Len(s)] = " " THEN TrimRight(SubSeq(s, 1, Len(s) - 1)) ELSE s

\* String.prototype.trim
Trim(s) == TrimLeft(TrimRight(s))

\* underscore and blank are the same separator
SepToSpace(s) == [i \in 1..Len(s) |-> IF s[i] = "_" THEN " " ELSE s[i]]

RECURSIVE CollapseSpaces(_)
CollapseSpaces(s) ==
  IF Len(s) < 2 THEN s
  ELSE IF s[1] = " " /\ s[2] = " " THEN CollapseSpaces(Tail(s))
  ELSE <<s[1]>> \o CollapseSpaces(Tail(s))

-----------------------------------------------------------------------------
(* Canonical schema (ImportFiles.tsx, manualColumns)                       *)

PersonID == <<"P","e","r","s","o","n","I","D">>
StartDate == <<"S","t","a","r","t"," ","d","a","t","e">>
EndDate == <<"E","n","d"," ","d","a","t","e">>
MRiskFactors == <<"M","-","R","i","s","k"," ","F","a","c","t","o","r","s">>
Gender == <<"G","e","n","d","e","r">>
Age == <<"A","g","e">>
MNA == <<"M","N","A">>
BMI == <<"B","M","I">>
Weight == <<"W","e","i","g","h","t">>

manualColumns ==
  <<PersonID, StartDate, EndDate, MRiskFactors, Gender, Age, MNA, BMI, Weight>>

-----------------------------------------------------------------------------
(* Schema Matcher                                                          *)

\* variant: surrounding blanks are kept
NormalizeColumnNoTrim(name) == CollapseSpaces(SepToSpace(ToLowerCase(name)))

\* case-fold, trim, whitespace/underscore equivalent
NormalizeColumn(name) == Trim(CollapseSpaces(SepToSpace(ToLowerCase(name))))

\* index of the first column of cols whose normalized form equals that of c, 0 if none
FirstMatch(c, cols) ==
  IF \E i \in 1..Len(cols) : NormalizeColumn(cols[i]) = NormalizeColumn(c)
  THEN CHOOSE i \in 1..Len(cols) :
         /\ NormalizeColumn(cols[i]) = NormalizeColumn(c)
         /\ \A j \in 1..(i - 1) : NormalizeColumn(cols[j]) # NormalizeColumn(c)
  ELSE 0

MapTo(expected, cols) ==
  [i \in 1..Len(expected) |->
     IF FirstMatch(expected[i], cols) = 0 THEN NoColumn
     ELSE cols[FirstMatch(expected[i], cols)]]

RECURSIVE Unmatched(_, _, _)
Unmatched(expected, map, i) ==
  IF i > Len(expected) THEN <<>>
  ELSE (IF map[i] = NoColumn THEN <<expected[i]>> ELSE <<>>)
       \o Unmatched(expected, map, i + 1)

\* storage-side gaps are reported but do not block the import
CanImport(missing_in_csv, missing_in_db) == Len(missing_in_csv) = 0

\* match(csvColumns, canonicalSchema, storageSchema) -> ColumnMatchResult
MatchColumns(csv, expected, storage) ==
  LET c2e == MapTo(expected, csv)
      e2d == MapTo(expected, storage)
      mc == Unmatched(expected, c2e, 1)
      md == Unmatched(expected, e2d, 1)
  IN [expected_columns |-> expected,
      csv_to_expected |-> c2e,
      expected_to_db |-> e2d,
      missing_in_csv |-> mc,
      missing_in_db |-> md,
      can_import |-> CanImport(mc, md)]

-----------------------------------------------------------------------------
(* Bounds                                                                  *)

\* number of header positions whose spelling is varied in the matcher inputs
MaxVaried == 3
\* number of requests the import wizard may send in one run
MaxRequests == 3
\* rows already in the data table before the run
MaxPriorRows == 1
\* number of requests direct API sessions may send in one run
MaxApiCalls == 4
\* number of distinct risk-factor terms in the stored records
MaxSymptoms == 11
\* number of scans the worklist page starts in one run
MaxScans == 2
\* number of feature identifiers the MachineLearning page loads
MaxRfColumns == 2
\* number of Symptoms the MachineLearning page loads
MaxSymptomItems == 2
\* number of rows of the manual input table
MaxManualRows == 2
\* length of the risk-factor texts the splitting is checked on
MaxRiskLen == 4
\* number of list requests the search of the existing symptoms sends
MaxSearches == 3
\* number of requests sent through the API client in one run
MaxClientCalls == 3
\* number of Power BI refreshes started in one run
MaxRefreshes == 2

-----------------------------------------------------------------------------
(* State                                                                   *)

VARIABLES
  \* Schema Matcher exercised on its own
  mIn, mOut,
  \* ImportFiles page state (useState hooks)
  step, token, filename, totalRows, missingCsv, missingDb, canImport,
  mode, overwriteConfirmed, loading,
  \* history: the confirmation box was ticked since the mode was last selected
  tickedSinceSelect,
  \* requests in flight, responses not yet delivered, next request id
  reqs, resps, nextReq,
  \* backend: preview cache, token counter, data table, open commit
  \* transactions, table lock, columns of the data table
  cache, nextTok, dataTable, txn, lock, storageSchema,
  \* what this run exercises: the wizard page, direct API sessions, or the
  \* Schema Matcher alone
  driver,
  \* history: previews issued (token -> file, row count, can_import) and
  \* tokens whose commit has succeeded
  issued, committed,
  \* the value of VITE_MAX_UPLOAD_MB in this build; history: the files
  \* handleUpload has refused as too large
  maxUploadRaw, rejected,
  \* SymptomsVsCategories page state (useState hooks)
  result, missingTypes, selections, page, pageSize, insertLoading,
  autoRefresh, refreshing,
  \* what the running countdown interval's callback closed over
  tickClosure,
  \* scans and the save in flight, next scan id
  scans, saving, nextScan,
  \* backend: the Symptom table
  symptomTable,
  \* ImportFiles page, manual input table (useState hooks)
  manualRows, manualErrors,
  \* MachineLearning page state (useState hooks)
  rfColumns, symptomItems, rfLoaded, symptomsLoaded, features, rfSearch, mlError,
  \* SymptomsVsCategories page, existing symptoms: the list shown, the edit
  \* dialog, the saveEdit in flight
  existingItems, editModal, editFlight,
  \* AuthProvider: state, the phase of its mount, localStorage (stored state,
  \* remember-me flag, auth token), the router's location
  authState, authPhase, lsState, lsRemember, lsToken, location,
  \* history: the last operation that set authState
  lastAuthOp,
  \* SymptomsVsCategories page, search of the existing symptoms: the page's
  \* existingSearch, the text in the box, the debounce timer, the list requests
  \* in flight and their counter
  existingSearch, searchInner, debouncePending, searchReqs, nextSearch,
  \* API client: the request last handed to fetch, the number of requests sent
  lastRequest, nextCall,
  \* PowerBIEmbed page: useState hooks, the load() of the mounted component,
  \* localStorage 'pbi-embed-url', VITE_PBI_EMBED_URL, the page's protocol
  embedUrl, embedLoading, embedError, embedPhase, lsEmbedUrl, envUrl, httpsPage,
  \* history: outcome of the embed-URL request, the URL cached at mount
  embedAnswer, cachedAtMount,
  \* PBIRefreshProvider: status, todayCount, esRef, finishedRef, notifications
  \* raised, trigger requests in flight, listeners waiting for a status
  \* query, stream counter, terminal event the open stream delivered
  refreshStatus, todayCount, esRef, finishedRef, notifications, triggers,
  awaiting, nextEs, esTerminal,
  \* the 500 ms timer of window.location.reload() is set
  reloadTimer,
  \* history: terminal outcomes applied since startEs, a closeEs was ignored
  applied, suppressed

matchVars == <<mIn, mOut>>
wizardVars == <<step, token, filename, totalRows, missingCsv, missingDb,
                canImport, mode, overwriteConfirmed, loading,
                tickedSinceSelect>>
netVars == <<reqs, resps, nextReq, driver>>
serverVars == <<cache, nextTok, dataTable, txn, lock, storageSchema,
                issued, committed>>
uploadVars == <<maxUploadRaw, rejected>>
importVars == <<wizardVars, netVars, serverVars, uploadVars>>
scanVars == <<result, missingTypes, selections, page, pageSize, insertLoading,
              autoRefresh, refreshing, tickClosure,
              scans, saving, nextScan, symptomTable>>
manualVars == <<manualRows, manualErrors>>
\* state of the pages other than the import wizard and the worklist
mlVars == <<rfColumns, symptomItems, rfLoaded, symptomsLoaded, features,
           rfSearch, mlError>>
\* state of the pages beside the import wizard, its manual table and the worklist
editVars == <<existingItems, editModal, editFlight>>
authVars == <<authState, authPhase, lsState, lsRemember, lsToken, location,
             lastAuthOp>>
searchVars == <<existingSearch, searchInner, debouncePending, searchReqs, nextSearch>>
\* state of the pages and modules each exercised by a specification of its own
clientVars == <<lastRequest, nextCall>>
embedVars == <<embedUrl, embedLoading, embedError, embedPhase, lsEmbedUrl, envUrl,
               httpsPage, embedAnswer, cachedAtMount>>
refreshVars == <<refreshStatus, todayCount, esRef, finishedRef, notifications,
                 triggers, awaiting, nextEs, esTerminal, reloadTimer, applied,
                 suppressed>>
\* state of the Power BI page and refresh context
pbiVars == <<embedVars, refreshVars>>
extraVars == <<searchVars, clientVars, pbiVars>>
\* state outside extraVars
coreVars == <<matchVars, scanVars, manualVars, mlVars, editVars, authVars, importVars>>
sideVars == <<mlVars, editVars, authVars, extraVars>>
otherPagesVars == <<manualVars, sideVars>>
\* state outside the worklist page and the import pipeline
offScanVars == <<matchVars, otherPagesVars>>
\* state outside the import pipeline
nonImportVars == <<matchVars, scanVars, otherPagesVars>>
vars == <<nonImportVars, importVars>>

-----------------------------------------------------------------------------
(* Schema Matcher inputs: spellings of uploaded headers.  same records      *)
(* whether the spelling differs from the canonical name only by case,       *)
(* surrounding blanks and blank/underscore.                                 *)

\* positions of manualColumns whose spelling is varied, in this order
VariedOrder == <<1, 2, 6, 3, 5>>

Spellings ==
  <<<<[text |-> <<" ","P","e","r","s","o","n","I","D"," ">>, same |-> TRUE],
    [text |-> <<"p","e","r","s","o","n","i","d">>, same |-> TRUE],
    [text |-> <<"P","e","r","s","o","n","_","I","D">>, same |-> FALSE]>>,
   <<[text |-> <<"s","t","a","r","t","_","d","a","t","e">>, same |-> TRUE],
    [text |-> <<"S","T","A","R","T"," ","D","A","T","E">>, same |-> TRUE],
    [text |-> <<"S","t","a","r","t","d","a","t","e">>, same |-> FALSE]>>,
   <<[text |-> <<"A","G","E">>, same |-> TRUE],
    [text |-> <<"a","g","e"," ">>, same |-> TRUE],
    [text |-> <<"A","g","e","s">>, same |-> FALSE]>>,
   <<[text |-> <<"E","n","d"," ","D","a","t","e">>, same |-> TRUE],
    [text |-> <<"e","n","d","_","d","a","t","e">>, same |-> TRUE],
    [text |-> <<"E","n","d","d","a","t","e">>, same |-> FALSE]>>,
   <<[text |-> <<"g","e","n","d","e","r">>, same |-> TRUE],
    [text |-> <<"G","E","N","D","E","R">>, same |-> TRUE],
    [text |-> <<"S","e","x">>, same |-> FALSE]>>>>

\* choice 0 leaves the column out, 4 spells it as in the canonical schema
Choices == 0..4

VariedPos(i) ==
  IF \E k \in 1..MaxVaried : VariedOrder[k] = i
  THEN CHOOSE k \in 1..MaxVaried : VariedOrder[k] = i
  ELSE 0

RECURSIVE HeaderFrom(_, _)
HeaderFrom(choice, i) ==
  IF i > Len(manualColumns) THEN <<>>
  ELSE LET k == VariedPos(i)
           here == IF k = 0 \/ choice[k] = 4 THEN <<manualColumns[i]>>
                   ELSE IF choice[k] = 0 THEN <<>>
                   ELSE <<Spellings[k][choice[k]].text>>
       IN here \o HeaderFrom(choice, i + 1)

\* columns of the data table: complete, or lacking MNA
StorageFull == manualColumns
StorageNoMNA == <<PersonID, StartDate, EndDate, MRiskFactors, Gender, Age, BMI, Weight>>
StorageOptions == {StorageFull, StorageNoMNA}

-----------------------------------------------------------------------------
(* Uploaded files                                                          *)

\* upload ceiling in MB when VITE_MAX_UPLOAD_MB is unset, empty or invalid;
\* the ceiling of the backend
MAX_UPLOAD_MB == 100

\* values of VITE_MAX_UPLOAD_MB: unset, or a text
EnvUnset == [set |-> FALSE, text |-> <<>>]
MaxUploadRaws ==
  { EnvUnset,
    [set |-> TRUE, text |-> <<>>],
    [set |-> TRUE, text |-> <<"a","b","c">>],
    [set |-> TRUE, text |-> <<"0">>],
    [set |-> TRUE, text |-> <<"-","5">>],
    [set |-> TRUE, text |-> <<"5","0">>],
    [set |-> TRUE, text |-> <<" ","2","0","0">>] }

DigitValue ==
  [c \in {"0","1","2","3","4","5","6","7","8","9"} |->
     CASE c = "0" -> 0 [] c = "1" -> 1 [] c = "2" -> 2 [] c = "3" -> 3 [] c = "4" -> 4
       [] c = "5" -> 5 [] c = "6" -> 6 [] c = "7" -> 7 [] c = "8" -> 8 [] c = "9" -> 9]

\* the number a text of decimal digits writes
RECURSIVE DecimalValue(_)
DecimalValue(t) ==
  IF t = <<>> THEN 0
  ELSE 10 * DecimalValue(SubSeq(t, 1, Len(t) - 1)) + DigitValue[t[Len(t)]]

\* Number(raw) on undefined, blank text, signed decimal integers and other
\* text: <<>> stands for NaN, <<n>> for the number n
NumberOf(raw) ==
  IF ~raw.set THEN <<>>
  ELSE LET t == Trim(raw.text)
           body == IF t # <<>> /\ t[1] = "-" THEN Tail(t) ELSE t
       IN IF t = <<>> THEN <<0>>
          ELSE IF body # <<>> /\ \A i \in 1..Len(body) : body[i] \in DOMAIN DigitValue
          THEN <<IF t[1] = "-" THEN 0 - DecimalValue(body) ELSE DecimalValue(body)>>
          ELSE <<>>

\* variant: any number read from the environment is taken
ParseMaxUploadAny(raw) ==
  IF NumberOf(raw) # <<>> THEN NumberOf(raw)[1] ELSE MAX_UPLOAD_MB

\* Number.isFinite(n) && n > 0 ? n : 100
ParseMaxUpload(raw) ==
  IF NumberOf(raw) # <<>> /\ NumberOf(raw)[1] > 0 THEN NumberOf(raw)[1]
  ELSE MAX_UPLOAD_MB

\* MAX_UPLOAD_MB of ImportFiles in this build
MaxUploadMb == ParseMaxUpload(maxUploadRaw)

HeaderGood ==
  <<<<"p","e","r","s","o","n","i","d">>,
    <<"s","t","a","r","t","_","d","a","t","e">>,
    <<"E","n","d"," ","D","a","t","e">>,
    <<"M","-","R","i","s","k"," ","F","a","c","t","o","r","s">>,
    <<"g","e","n","d","e","r">>,
    <<"A","G","E">>,
    <<"m","n","a">>,
    <<"b","m","i">>,
    <<"w","e","i","g","h","t">>>>

\* lacks Weight
HeaderBad ==
  <<<<"p","e","r","s","o","n","i","d">>,
    <<"s","t","a","r","t","_","d","a","t","e">>,
    <<"E","n","d"," ","D","a","t","e">>,
    <<"M","-","R","i","s","k"," ","F","a","c","t","o","r","s">>,
    <<"g","e","n","d","e","r">>,
    <<"A","G","E">>,
    <<"m","n","a">>,
    <<"b","m","i">>>>

FileGood == [name |-> "good.csv", size |-> 1, header |-> HeaderGood,
             nrows |-> 2, wellFormed |-> TRUE]
FileBad == [name |-> "bad.csv", size |-> 1, header |-> HeaderBad,
            nrows |-> 1, wellFormed |-> TRUE]
FileHuge == [name |-> "huge.csv", size |-> 101, header |-> HeaderGood,
             nrows |-> 2, wellFormed |-> TRUE]
FileBig == [name |-> "big.csv", size |-> 60, header |-> HeaderGood,
            nrows |-> 1, wellFormed |-> TRUE]
FileBroken == [name |-> "broken.csv", size |-> 1, header |-> <<>>,
               nrows |-> 0, wellFormed |-> FALSE]
\* the file submitManualAsCsv generates from one valid manual row
FileManual == [name |-> "manual_input.csv", size |-> 1, header |-> manualColumns,
               nrows |-> 1, wellFormed |-> TRUE]
FileNone == [name |-> "", size |-> 0, header |-> <<>>,
             nrows |-> 0, wellFormed |-> TRUE]

DroppableFiles == {FileGood, FileBad, FileHuge, FileBroken}

AllFiles == DroppableFiles \cup {FileManual, FileNone, FileBig}

FileNamed(n) == CHOOSE f \in AllFiles : f.name = n

\* parsed rows of a file: row i of file f
RowsOf(name, n) == [i \in 1..n |-> <<name, i>>]

PriorRows == [i \in 1..MaxPriorRows |-> <<"prior", i>>]

-----------------------------------------------------------------------------
(* Backend: Preview Cache and Commit Engine                                *)

Without(f, k) == [x \in DOMAIN f \ {k} |-> f[x]]

With(f, k, v) == [x \in DOMAIN f \cup {k} |-> IF x = k THEN v ELSE f[x]]

\* column check of every uploadable file against every storage schema
PreviewMatch ==
  [n \in {f.name : f \in AllFiles}, st \in StorageOptions |->
     MatchColumns(FileNamed(n).header, manualColumns, st)]

Response(r, ok, error) ==
  [id |-> r.id, kind |-> r.kind, ok |-> ok, error |-> error,
   token |-> 0, filename |-> "", total_rows |-> 0,
   missing_in_csv |-> <<>>, missing_in_db |-> <<>>, can_import |-> FALSE,
   inserted |-> 0]

\* preview(fileBytes, filename): size ceiling, parse, match, issue token, cache
ServePreview(r) ==
  /\ r \in reqs /\ r.kind = "preview"
  /\ reqs' = reqs \ {r}
  /\ IF FileNamed(r.file).size > MAX_UPLOAD_MB
     THEN /\ resps' = resps \cup {Response(r, FALSE, "FileTooLarge")}
          /\ UNCHANGED <<cache, nextTok, issued>>
     ELSE IF ~FileNamed(r.file).wellFormed
     THEN /\ resps' = resps \cup {Response(r, FALSE, "ParseFailure")}
          /\ UNCHANGED <<cache, nextTok, issued>>
     ELSE LET m == PreviewMatch[r.file, storageSchema]
              f == FileNamed(r.file)
          IN /\ cache' = With(cache, nextTok,
                              [filename |-> f.name,
                               rows |-> RowsOf(f.name, f.nrows),
                               can_import |-> m.can_import])
             /\ issued' = With(issued, nextTok,
                               [filename |-> f.name, nrows |-> f.nrows,
                                can_import |-> m.can_import])
             /\ nextTok' = nextTok + 1
             /\ resps' = resps \cup
                  {[Response(r, TRUE, "") EXCEPT
                      !.token = nextTok, !.filename = f.name,
                      !.total_rows = f.nrows,
                      !.missing_in_csv = m.missing_in_csv,
                      !.missing_in_db = m.missing_in_db,
                      !.can_import = m.can_import]}
  /\ UNCHANGED <<nextReq, driver, dataTable, txn, lock, storageSchema, committed>>
  /\ UNCHANGED <<wizardVars, nonImportVars, uploadVars>>

\* the token names a cached, unexpired, unconsumed dataset
TokenValid(t) == t \in DOMAIN cache

\* commit validation failures: TokenInvalid, SchemaIncomplete
CommitError(r) ==
  IF ~TokenValid(r.token) THEN "TokenInvalid"
  ELSE IF ~cache[r.token].can_import THEN "SchemaIncomplete"
  ELSE ""

\* variant: commits do not wait for the table lock
LockFreeAlways == TRUE

\* the write lock on the data table is free
LockFree == lock = 0

\* variant: overwrite does not truncate
BeginWorkKeep(m, table) == table

\* variant: append truncates as well
BeginWorkTruncate(m, table) == <<>>

\* overwrite truncates the table first, append keeps it
BeginWork(m, table) == IF m = "overwrite" THEN <<>> ELSE table

\* a rejected commit writes nothing
CommitReject(r) ==
  /\ r \in reqs /\ r.kind = "commit" /\ r.id \notin DOMAIN txn
  /\ LockFree
  /\ CommitError(r) # ""
  /\ reqs' = reqs \ {r}
  /\ resps' = resps \cup {Response(r, FALSE, CommitError(r))}
  /\ UNCHANGED <<nextReq, driver, cache, nextTok, dataTable, txn, lock, storageSchema,
                 issued, committed>>
  /\ UNCHANGED <<wizardVars, nonImportVars, uploadVars>>

\* a valid commit takes the table lock and opens its transaction
CommitBegin(r) ==
  /\ r \in reqs /\ r.kind = "commit" /\ r.id \notin DOMAIN txn
  /\ LockFree
  /\ CommitError(r) = ""
  /\ lock' = r.id
  /\ txn' = With(txn, r.id, [token |-> r.token, mode |-> r.mode,
                             rows |-> cache[r.token].rows, pos |-> 0,
                             work |-> BeginWork(r.mode, dataTable)])
  /\ UNCHANGED <<reqs, resps, nextReq, driver, cache, nextTok, dataTable, storageSchema,
                 issued, committed>>
  /\ UNCHANGED <<wizardVars, nonImportVars, uploadVars>>

\* insert the next parsed row inside the transaction
CommitWrite(r) ==
  /\ r \in reqs /\ r.id \in DOMAIN txn
  /\ LET t == txn[r.id]
     IN /\ t.pos < Len(t.rows)
        /\ txn' = [txn EXCEPT ![r.id].work = Append(t.work, t.rows[t.pos + 1]),
                              ![r.id].pos = t.pos + 1]
  /\ UNCHANGED <<reqs, resps, nextReq, driver, cache, nextTok, dataTable, lock,
                 storageSchema, issued, committed>>
  /\ UNCHANGED <<wizardVars, nonImportVars, uploadVars>>

\* variant: rows written before the failure stay
RollbackKeepsWrites(table, work) == work

\* table content after a failed transaction
Rollback(table, work) == table

\* a storage write fails: the whole batch is rolled back
CommitFail(r) ==
  /\ r \in reqs /\ r.id \in DOMAIN txn
  /\ dataTable' = Rollback(dataTable, txn[r.id].work)
  /\ txn' = Without(txn, r.id)
  /\ lock' = IF lock = r.id THEN 0 ELSE lock
  /\ reqs' = reqs \ {r}
  /\ resps' = resps \cup {Response(r, FALSE, "StorageFailure")}
  /\ UNCHANGED <<nextReq, driver, cache, nextTok, storageSchema, issued, committed>>
  /\ UNCHANGED <<wizardVars, nonImportVars, uploadVars>>

\* variant: the dataset stays cached after its commit
ConsumeTokenKept(c, t) == c

\* cache after a successful commit: the token is invalidated
ConsumeToken(c, t) == Without(c, t)

\* all rows written: make them visible, invalidate the token, answer
CommitFinish(r) ==
  /\ r \in reqs /\ r.id \in DOMAIN txn
  /\ LET t == txn[r.id]
     IN /\ t.pos = Len(t.rows)
        /\ dataTable' = t.work
        /\ cache' = ConsumeToken(cache, t.token)
        /\ resps' = resps \cup
             {[Response(r, TRUE, "") EXCEPT !.inserted = Len(t.rows),
                                            !.total_rows = Len(t.rows)]}
  /\ txn' = Without(txn, r.id)
  /\ lock' = IF lock = r.id THEN 0 ELSE lock
  /\ reqs' = reqs \ {r}
  /\ committed' = committed \cup {txn[r.id].token}
  /\ UNCHANGED <<nextReq, driver, nextTok, storageSchema, issued>>
  /\ UNCHANGED <<wizardVars, nonImportVars, uploadVars>>

\* TTL expiry, checked lazily when the token is presented: the dataset is
\* evicted and the commit rejected
CommitExpired(r) ==
  /\ r \in reqs /\ r.kind = "commit" /\ r.id \notin DOMAIN txn
  /\ LockFree
  /\ TokenValid(r.token)
  /\ cache' = Without(cache, r.token)
  /\ reqs' = reqs \ {r}
  /\ resps' = resps \cup {Response(r, FALSE, "TokenInvalid")}
  /\ UNCHANGED <<nextReq, driver, nextTok, dataTable, txn, lock, storageSchema,
                 issued, committed>>
  /\ UNCHANGED <<wizardVars, nonImportVars, uploadVars>>

-----------------------------------------------------------------------------
(* ImportFiles page                                                        *)

Request(kind, f, t, m) ==
  [id |-> nextReq, kind |-> kind, file |-> f.name, token |-> t, mode |-> m]

\* the run is a session on the wizard page: on its upload flow, or on its
\* manual input table
Wizard == driver \in {"wizard", "manual", "upload"}

\* index of the current step in the Steps bar
currentIndex ==
  CASE step \in {"select", "manual"} -> 0
    [] step = "preview" -> 1
    [] step = "mode" -> 2
    [] step = "importing" -> 3
    [] OTHER -> 4

\* handleUpload up to the preview request
HandleUploadSend(f) ==
  IF f.size > MaxUploadMb
  THEN /\ loading' = FALSE
       /\ rejected' = rejected \cup {f.name}
       /\ UNCHANGED <<reqs, nextReq>>
  ELSE /\ nextReq <= MaxRequests
       /\ loading' = TRUE
       /\ reqs' = reqs \cup {Request("preview", f, 0, "append")}
       /\ nextReq' = nextReq + 1
       /\ UNCHANGED rejected

\* Upload.Dragger beforeUpload / onDrop, disabled while loading
DropFile(f) ==
  /\ Wizard
  /\ step = "select" /\ ~loading
  /\ HandleUploadSend(f)
  /\ UNCHANGED <<step, token, filename, totalRows, missingCsv, missingDb,
                 canImport, mode, overwriteConfirmed, tickedSinceSelect,
                 resps, driver, serverVars, nonImportVars, maxUploadRaw>>

-----------------------------------------------------------------------------
(* ImportFiles page: the manual input table.  A row is modelled by its      *)
(* 'M-Risk Factors' cell and its 'Age' cell, Age standing for the required  *)
(* columns.                                                                 *)

\* the full-width comma character
FullWidthComma == "U+FF0C"

\* String.prototype.includes for one character
Includes(s, c) == \E i \in 1..Len(s) : s[i] = c

\* String.prototype.split on the separators seps
RECURSIVE Split(_, _)
Split(s, seps) ==
  IF \A i \in 1..Len(s) : s[i] \notin seps THEN <<s>>
  ELSE LET i == CHOOSE j \in 1..Len(s) :
                  s[j] \in seps /\ \A k \in 1..(j - 1) : s[k] \notin seps
       IN <<SubSeq(s, 1, i - 1)>> \o Split(SubSeq(s, i + 1, Len(s)), seps)

\* .map(f => f.trim()).filter(f => f.length > 0)
TrimmedNonEmpty(parts) ==
  LET nonEmpty(t) == t # <<>>
  IN SelectSeq([i \in 1..Len(parts) |-> Trim(parts[i])], nonEmpty)

formatMRiskFactors(value) ==
  IF Trim(value) = <<>> THEN <<>>
  ELSE TrimmedNonEmpty(Split(value, {","}))

\* null error of a cell
NoError == ""

\* variant: the full-width comma is not looked for
MRiskFactorsErrorNoFullWidth(val) ==
  LET v == Trim(val)
  IN IF v = <<>> THEN NoError
     ELSE IF TrimmedNonEmpty(Split(v, {","})) = <<>>
     THEN "Please enter valid risk factors"
     ELSE NoError

\* updateManualCell, validation of the 'M-Risk Factors' cell
MRiskFactorsError(val) ==
  LET v == Trim(val)
  IN IF v = <<>> THEN NoError
     ELSE IF Includes(v, FullWidthComma)
     THEN "Please use English comma (,) instead of Chinese comma"
     ELSE IF TrimmedNonEmpty(Split(v, {","})) = <<>>
     THEN "Please enter valid risk factors"
     ELSE NoError

Digits == {"0", "1", "2", "3", "4", "5", "6", "7", "8", "9"}

\* updateManualCell, validation of the 'Age' cell: /^\d+$/
AgeError(val) ==
  LET v == Trim(val)
  IN IF v = <<>> \/ \A i \in 1..Len(v) : v[i] \in Digits THEN NoError
     ELSE "Age must be an integer"

BlankRow == [risk |-> <<>>, age |-> <<>>]
BlankErrors == [risk |-> NoError, age |-> NoError]

\* texts typed into an 'M-Risk Factors' cell
RiskValues ==
  { <<>>,
    <<"a">>,
    <<"a", ",", "b">>,
    <<" ", "a", " ", ",", " ", ",", "b", " ">>,
    <<"a", FullWidthComma, "b">>,
    <<"a", FullWidthComma, "b", ",", "c">>,
    <<",">>,
    <<FullWidthComma>> }

\* texts typed into an 'Age' cell
AgeValues == { <<>>, <<"7">>, <<"x">> }

\* the cell edits of the user: column and text
CellInputs ==
  {<<"M-Risk Factors", v>> : v \in RiskValues} \cup {<<"Age", v>> : v \in AgeValues}

\* input onChange of a cell of the manual table
updateManualCell(idx, key, val) ==
  /\ Wizard
  /\ step = "manual"
  /\ idx \in 1..Len(manualRows)
  /\ manualRows' = [manualRows EXCEPT ![idx] =
                      IF key = "Age" THEN [@ EXCEPT !.age = val]
                      ELSE [@ EXCEPT !.risk = val]]
  /\ manualErrors' = [manualErrors EXCEPT ![idx] =
                        IF key = "Age" THEN [@ EXCEPT !.age = AgeError(val)]
                        ELSE [@ EXCEPT !.risk = MRiskFactorsError(val)]]
  /\ manualRows' # manualRows
  /\ UNCHANGED <<wizardVars, netVars, serverVars, uploadVars, matchVars, scanVars,
                 sideVars>>

\* 'Add Row'
addManualRow ==
  /\ Wizard
  /\ step = "manual"
  /\ Len(manualRows) < MaxManualRows
  /\ manualRows' = Append(manualRows, BlankRow)
  /\ manualErrors' = Append(manualErrors, BlankErrors)
  /\ UNCHANGED <<wizardVars, netVars, serverVars, uploadVars, matchVars, scanVars,
                 sideVars>>

\* a sequence without its element idx
RemoveAt(seq, idx) ==
  [i \in 1..(Len(seq) - 1) |-> IF i < idx THEN seq[i] ELSE seq[i + 1]]

\* 'Delete this row?' confirmed
removeManualRow(idx) ==
  /\ Wizard
  /\ step = "manual"
  /\ idx \in 1..Len(manualRows)
  /\ manualRows' = RemoveAt(manualRows, idx)
  /\ manualErrors' = RemoveAt(manualErrors, idx)
  /\ UNCHANGED <<wizardVars, netVars, serverVars, uploadVars, matchVars, scanVars,
                 sideVars>>

\* getRowValidationStatus(rowIndex).status
getRowValidationStatus(i) ==
  LET row == manualRows[i]
      errors == manualErrors[i]
  IN IF Trim(row.risk) = <<>> /\ Trim(row.age) = <<>> THEN "error"
     ELSE IF Trim(row.age) = <<>> THEN "error"
     ELSE IF errors.risk # NoError \/ errors.age # NoError THEN "error"
     ELSE "valid"

\* getOverallValidationStatus().canSubmit
canSubmit ==
  /\ Len(manualRows) # 0
  /\ \A i \in 1..Len(manualRows) : getRowValidationStatus(i) = "valid"

\* the checks of submitManualAsCsv before the file is generated
SubmitChecksPass ==
  /\ \A i \in 1..Len(manualRows) :
       ~(Trim(manualRows[i].risk) = <<>> /\ Trim(manualRows[i].age) = <<>>)
  /\ \A i \in 1..Len(manualRows) : Trim(manualRows[i].age) # <<>>
  /\ \A i \in 1..Len(manualErrors) :
       manualErrors[i].risk = NoError /\ manualErrors[i].age = NoError

\* the manual table is as constructed
ManualIdle == manualRows = <<BlankRow>> /\ manualErrors = <<BlankErrors>>


-----------------------------------------------------------------------------
(* ImportFiles page: preview, mode and commit                               *)

\* 'Generate & Preview', disabled unless canSubmit: submitManualAsCsv
SubmitManual ==
  /\ Wizard
  /\ step = "manual"
  /\ canSubmit
  /\ SubmitChecksPass
  /\ HandleUploadSend(FileManual)
  /\ UNCHANGED <<step, token, filename, totalRows, missingCsv, missingDb,
                 canImport, mode, overwriteConfirmed, tickedSinceSelect,
                 resps, driver, serverVars, nonImportVars, maxUploadRaw>>

\* variant: every preview is taken as importable
PreviewCanImportAlways(d) == TRUE

\* setCanImport(!!d.can_import)
PreviewCanImport(d) == d.can_import

\* variant: the storage-side list is stored as the CSV-side list
PreviewMissingCsvFromDb(d) == d.missing_in_db

\* setMissingCsv(d.missing_in_csv || [])
PreviewMissingCsv(d) == d.missing_in_csv

\* handleUpload after the response: store the preview or report the error
DeliverPreview(d) ==
  /\ Wizard
  /\ d \in resps /\ d.kind = "preview"
  /\ resps' = resps \ {d}
  /\ loading' = FALSE
  /\ IF d.ok
     THEN /\ token' = d.token
          /\ filename' = d.filename
          /\ totalRows' = d.total_rows
          /\ missingCsv' = PreviewMissingCsv(d)
          /\ missingDb' = d.missing_in_db
          /\ canImport' = PreviewCanImport(d)
          /\ step' = "preview"
     ELSE UNCHANGED <<step, token, filename, totalRows, missingCsv,
                         missingDb, canImport>>
  /\ UNCHANGED <<mode, overwriteConfirmed, tickedSinceSelect, reqs, nextReq,
                 driver, serverVars, nonImportVars, uploadVars>>

StepOnly == <<token, filename, totalRows, missingCsv, missingDb, canImport,
              mode, overwriteConfirmed, loading,
              tickedSinceSelect, netVars, serverVars, nonImportVars, uploadVars>>

EnterManual == Wizard /\ step = "select" /\ step' = "manual" /\ UNCHANGED StepOnly

BackToUpload == Wizard /\ step = "manual" /\ step' = "select" /\ UNCHANGED StepOnly

PreviewBack == Wizard /\ step = "preview" /\ step' = "select" /\ UNCHANGED StepOnly

\* 'Next: choose import mode', disabled unless canImport
PreviewNext ==
  Wizard /\ step = "preview" /\ canImport /\ step' = "mode" /\ UNCHANGED StepOnly

ModeBack == Wizard /\ step = "mode" /\ step' = "preview" /\ UNCHANGED StepOnly

\* Steps onChange: items after the current one are disabled
StepsChange(next) ==
  /\ Wizard
  /\ next \in 0..currentIndex /\ next # currentIndex
  /\ step' = IF next = 0 THEN "select"
             ELSE <<"preview", "mode", "importing", "done">>[next]
  /\ UNCHANGED StepOnly

\* effect on [mode]: selecting append clears the confirmation
ModeEffect(m, confirmed) == IF m = "append" THEN FALSE ELSE confirmed

\* Radio / Card click in step 'mode'
SetMode(m) ==
  /\ Wizard
  /\ step = "mode" /\ m # mode
  /\ mode' = m
  /\ overwriteConfirmed' = ModeEffect(m, overwriteConfirmed)
  /\ tickedSinceSelect' = FALSE
  /\ UNCHANGED <<step, token, filename, totalRows, missingCsv, missingDb,
                 canImport, loading, netVars, serverVars, nonImportVars, uploadVars>>

\* the confirmation checkbox, rendered only while mode is overwrite
ToggleConfirm ==
  /\ Wizard
  /\ step = "mode" /\ mode = "overwrite"
  /\ overwriteConfirmed' = ~overwriteConfirmed
  /\ tickedSinceSelect' = ~overwriteConfirmed
  /\ UNCHANGED <<step, token, filename, totalRows, missingCsv, missingDb,
                 canImport, mode, loading, netVars, serverVars,
                 nonImportVars, uploadVars>>

\* variant: the button ignores the confirmation
StartImportDisabledNoConfirm == ~canImport \/ loading

\* disabled attribute of the 'Start import' button
StartImportDisabled ==
  ~canImport \/ loading \/ (mode = "overwrite" /\ ~overwriteConfirmed)

\* startImport followed by handleCommit up to the commit request
StartImport ==
  /\ Wizard
  /\ step = "mode" /\ ~StartImportDisabled
  /\ canImport
  /\ step' = "importing"
  /\ IF token = 0
     THEN UNCHANGED <<loading, reqs, nextReq>>
     ELSE /\ nextReq <= MaxRequests
          /\ loading' = TRUE
          /\ reqs' = reqs \cup {Request("commit", FileNone, token, mode)}
          /\ nextReq' = nextReq + 1
  /\ UNCHANGED <<token, filename, totalRows, missingCsv, missingDb, canImport,
                 mode, overwriteConfirmed, tickedSinceSelect,
                 resps, driver, serverVars, nonImportVars, uploadVars>>

\* variant: a failed commit leaves the step as it is
DeliverCommitKeepsStep(d) ==
  /\ Wizard
  /\ d \in resps /\ d.kind = "commit"
  /\ resps' = resps \ {d}
  /\ loading' = FALSE
  /\ IF d.ok
     THEN step' = "done"
     ELSE step' = step
  /\ UNCHANGED <<token, filename, totalRows, missingCsv, missingDb, canImport,
                 mode, overwriteConfirmed, tickedSinceSelect, reqs, nextReq,
                 driver, serverVars, nonImportVars, uploadVars>>

\* handleCommit after the response: d.ok false stands for every failure the
\* catch block gets (HTTP error, invalid JSON, ok=false)
DeliverCommit(d) ==
  /\ Wizard
  /\ d \in resps /\ d.kind = "commit"
  /\ resps' = resps \ {d}
  /\ loading' = FALSE
  /\ IF d.ok
     THEN step' = "done"
     ELSE step' = "mode"
  /\ UNCHANGED <<token, filename, totalRows, missingCsv, missingDb, canImport,
                 mode, overwriteConfirmed, tickedSinceSelect, reqs, nextReq,
                 driver, serverVars, nonImportVars, uploadVars>>

\* 'Reset All' / 'Import more'
ResetAll ==
  /\ Wizard
  /\ step' = "select"
  /\ token' = 0
  /\ filename' = ""
  /\ totalRows' = 0
  /\ missingCsv' = <<>>
  /\ missingDb' = <<>>
  /\ canImport' = FALSE
  /\ mode' = "append"
  /\ overwriteConfirmed' = IF mode # "append" THEN ModeEffect("append", overwriteConfirmed)
                           ELSE overwriteConfirmed
  /\ loading' = FALSE
  /\ tickedSinceSelect' = IF mode # "append" THEN FALSE ELSE tickedSinceSelect
  /\ manualRows' = <<BlankRow>>
  /\ manualErrors' = <<BlankErrors>>
  /\ UNCHANGED sideVars
  /\ UNCHANGED <<netVars, serverVars, uploadVars, matchVars, scanVars>>

-----------------------------------------------------------------------------
(* Direct API sessions: other browser sessions or scripts calling the       *)
(* preview and commit endpoints without the wizard's guards                 *)

\* the run is driven by direct API sessions
Api == driver = "api"

ApiFiles == {FileGood, FileBad}

ApiPreview(f) ==
  /\ Api /\ nextReq <= MaxApiCalls
  /\ reqs' = reqs \cup {Request("preview", f, 0, "append")}
  /\ nextReq' = nextReq + 1
  /\ UNCHANGED <<resps, driver, wizardVars, serverVars, nonImportVars, uploadVars>>

\* any token value may be presented, issued or not; the answers stay in resps
ApiCommit(t, m) ==
  /\ Api /\ nextReq <= MaxApiCalls
  /\ reqs' = reqs \cup {Request("commit", FileNone, t, m)}
  /\ nextReq' = nextReq + 1
  /\ UNCHANGED <<resps, driver, wizardVars, serverVars, nonImportVars, uploadVars>>

-----------------------------------------------------------------------------
(* The Schema Matcher on its own: an uploaded header and a storage schema   *)
(* are drawn, then matched                                                  *)

\* csv_columns of the drawn upload
MatchHeader == HeaderFrom(mIn[1], 1)

DoMatch ==
  /\ driver = "matcher"
  /\ mIn # <<>> /\ mOut = <<>>
  /\ mOut' = <<MatchColumns(MatchHeader, manualColumns, storageSchema)>>
  /\ UNCHANGED <<mIn, scanVars, otherPagesVars, importVars>>

-----------------------------------------------------------------------------
(* AuthProvider and ProtectedRoute.  null and a missing value are the       *)
(* string "".                                                               *)

defaultState == [isAuthenticated |-> FALSE, username |-> "", role |-> ""]

\* the users /api/auth/login and /api/auth/verify answer with: the role of
\* a user record is 'user' or 'admin'
BackendUsers ==
  { [username |-> "alice", role |-> "admin"],
    [username |-> "bob", role |-> "user"] }

\* the auth tokens the backend issues and the user of each; 0 is no token
TokenUser ==
  <<[username |-> "alice", role |-> "admin"], [username |-> "bob", role |-> "user"]>>

TokenOf(u) == CHOOSE t \in DOMAIN TokenUser : TokenUser[t] = u

\* AuthState values a session can have stored
AuthStates ==
  {defaultState} \cup
  {[isAuthenticated |-> TRUE, username |-> u.username, role |-> u.role] :
     u \in BackendUsers}

PublicPaths == {"/login", "/register"}
AdminPaths == {"/import", "/symptoms"}
ProtectedPaths == {"/", "/dashboard", "/refresh-history", "/ml"} \cup AdminPaths
Paths == PublicPaths \cup ProtectedPaths

\* variant: the roles are not looked at
ProtectedRouteNoRoles(roles, auth) ==
  IF ~auth.isAuthenticated THEN [kind |-> "navigate", to |-> "/login"]
  ELSE [kind |-> "outlet", to |-> ""]

\* variant: the authentication check is left out
ProtectedRouteNoLogin(roles, auth) ==
  IF roles # <<>> /\ auth.role # "" /\ auth.role \notin roles[1]
  THEN [kind |-> "navigate", to |-> "/"]
  ELSE [kind |-> "outlet", to |-> ""]

\* ProtectedRoute({ roles }): <<>> is no roles prop, <<R>> the roles R
ProtectedRoute(roles, auth) ==
  IF ~auth.isAuthenticated THEN [kind |-> "navigate", to |-> "/login"]
  ELSE IF roles # <<>> /\ auth.role # "" /\ auth.role \notin roles[1]
  THEN [kind |-> "navigate", to |-> "/"]
  ELSE [kind |-> "outlet", to |-> ""]

\* the element the Routes of App render at a path
RouteElement(path, auth) ==
  IF path \in PublicPaths THEN [kind |-> "page", to |-> path]
  ELSE IF ProtectedRoute(<<>>, auth).kind # "outlet" THEN ProtectedRoute(<<>>, auth)
  ELSE IF path \in AdminPaths /\ ProtectedRoute(<<{"admin"}>>, auth).kind # "outlet"
  THEN ProtectedRoute(<<{"admin"}>>, auth)
  ELSE IF path = "/" THEN [kind |-> "navigate", to |-> "/dashboard"]
  ELSE [kind |-> "page", to |-> path]

\* AuthProvider's isChecking
isChecking == authPhase # "ready"

\* the run is a session of the application shell
Authing == driver = "auth"

AuthOnly == <<matchVars, scanVars, manualVars, mlVars, editVars, importVars, extraVars>>

\* variant: the stored session is never verified
MountAuthForgets ==
  /\ Authing
  /\ authPhase = "constructed"
  /\ authState' = defaultState
  /\ lsToken' = 0
  /\ lsState' = <<defaultState>>
  /\ authPhase' = "ready"
  /\ lastAuthOp' = "reset"
  /\ UNCHANGED <<lsRemember, location, AuthOnly>>

\* the effects of the first render: the state is persisted; initAuth starts
\* the verification of the stored token, or resets the state
MountAuth ==
  /\ Authing
  /\ authPhase = "constructed"
  /\ IF lsRemember /\ authState.isAuthenticated
     THEN /\ authPhase' = "verifying"
          /\ lsState' = <<authState>>
          /\ UNCHANGED <<authState, lsToken, lastAuthOp>>
     ELSE /\ authState' = defaultState
          /\ lsToken' = 0
          /\ lsState' = <<defaultState>>
          /\ authPhase' = "ready"
          /\ lastAuthOp' = "reset"
  /\ UNCHANGED <<lsRemember, location, AuthOnly>>

\* checkAuth after the answer of /api/auth/verify, and the rest of initAuth:
\* answer is <<u>> for a valid token of the user u, <<>> otherwise (no
\* token, token not valid, request failed)
VerifyAnswer(answer) ==
  /\ Authing
  /\ authPhase = "verifying"
  /\ answer # <<>> => lsToken # 0 /\ answer[1] = TokenUser[lsToken]
  /\ IF answer # <<>>
     THEN /\ authState' = [isAuthenticated |-> TRUE, username |-> answer[1].username,
                           role |-> answer[1].role]
          /\ lastAuthOp' = IF lastAuthOp = "login" THEN "restored" ELSE "verified"
          /\ UNCHANGED <<lsToken, lsRemember>>
     ELSE /\ authState' = defaultState
          /\ lsToken' = 0
          /\ lsRemember' = FALSE
          /\ lastAuthOp' = "reset"
  /\ lsState' = <<authState'>>
  /\ authPhase' = "ready"
  /\ UNCHANGED <<location, AuthOnly>>

\* login(username, role, token, rememberMe); token 0 is no token
login(username, role, tok, rememberMe) ==
  /\ Authing
  /\ ~isChecking
  /\ lsToken' = IF tok # 0 THEN tok ELSE lsToken
  /\ lsRemember' = rememberMe
  /\ authState' = [isAuthenticated |-> TRUE, username |-> username, role |-> role]
  /\ lsState' = <<authState'>>
  /\ lastAuthOp' = "login"
  /\ UNCHANGED <<authPhase, location, AuthOnly>>

\* variant: the stored token and the flag are kept
logoutKeepsStorage ==
  /\ Authing
  /\ ~isChecking
  /\ authState' = defaultState
  /\ lsState' = <<defaultState>>
  /\ lastAuthOp' = "logout"
  /\ UNCHANGED <<lsToken, lsRemember, authPhase, location, AuthOnly>>

\* logout
logout ==
  /\ Authing
  /\ ~isChecking
  /\ authState' = defaultState
  /\ lsToken' = 0
  /\ lsRemember' = FALSE
  /\ lsState' = <<defaultState>>
  /\ lastAuthOp' = "logout"
  /\ UNCHANGED <<authPhase, location, AuthOnly>>

\* page refresh: AuthProvider is mounted again, its state initialised from
\* the stored state; a verification in flight is abandoned
Reload ==
  /\ Authing
  /\ authPhase # "constructed"
  /\ authState' = IF lsState = <<>> THEN defaultState ELSE lsState[1]
  /\ authPhase' = "constructed"
  /\ UNCHANGED <<lsState, lsRemember, lsToken, location, lastAuthOp, AuthOnly>>

\* the user opens a path: a link, the address bar, navigate('/') after login
OpenPath(p) ==
  /\ Authing
  /\ ~isChecking
  /\ p # location
  /\ location' = p
  /\ UNCHANGED <<authState, authPhase, lsState, lsRemember, lsToken, lastAuthOp,
                 AuthOnly>>

\* the rendered <Navigate replace> takes effect
FollowNavigate ==
  /\ Authing
  /\ ~isChecking
  /\ RouteElement(location, authState).kind = "navigate"
  /\ location' = RouteElement(location, authState).to
  /\ UNCHANGED <<authState, authPhase, lsState, lsRemember, lsToken, lastAuthOp,
                 AuthOnly>>

\* the application shell is as constructed over an empty localStorage
AuthIdle ==
  /\ authState = defaultState /\ authPhase = "constructed"
  /\ lsState = <<>> /\ lsRemember = FALSE /\ lsToken = 0
  /\ location = "/" /\ lastAuthOp = "none"

-----------------------------------------------------------------------------
(* API client (api/client.ts) and the requests ImportFiles sends itself.    *)
(* A JavaScript object is a function from its keys; {} and undefined        *)
(* spread to nothing and are the empty function <<>>.                       *)

\* object spread { ...a, ...b }
Spread(a, b) ==
  [k \in DOMAIN a \cup DOMAIN b |-> IF k \in DOMAIN b THEN b[k] ELSE a[k]]

\* `Bearer ${token}` of a stored token
Bearer(t) == IF t = 1 THEN "Bearer token-1" ELSE "Bearer token-2"

\* init?.headers || {}
HeadersOf(init) == IF "headers" \in DOMAIN init THEN init.headers ELSE <<>>

\* headers with the Authorization header set when a token is stored
WithAuthorization(headers, tok) ==
  IF tok # 0 THEN Spread(headers, [Authorization |-> Bearer(tok)]) ELSE headers

\* the options apiGet hands to fetchWithTimeout
apiGet(init, tok) ==
  Spread([method |-> "GET",
          headers |-> WithAuthorization(
                        Spread([Accept |-> "application/json"], HeadersOf(init)), tok)],
         init)

\* the options apiPost hands to fetchWithTimeout
apiPost(init, tok) ==
  Spread([method |-> "POST",
          headers |-> WithAuthorization(
                        Spread([ContentType |-> "application/json",
                                Accept |-> "application/json"], HeadersOf(init)), tok),
          body |-> "json"],
         init)

\* the options apiPut hands to fetchWithTimeout
apiPut(init, tok) ==
  Spread([method |-> "PUT",
          headers |-> WithAuthorization(
                        Spread([ContentType |-> "application/json",
                                Accept |-> "application/json"], HeadersOf(init)), tok),
          body |-> "json"],
         init)

\* the options handleUpload hands to its own fetchWithTimeout
PreviewOptions == [method |-> "POST", body |-> "form"]

\* the options handleCommit hands to its own fetchWithTimeout
CommitOptions ==
  [method |-> "POST",
   headers |-> [ContentType |-> "application/json", Accept |-> "application/json"],
   body |-> "json"]

\* init arguments: none, a cache option, headers, empty headers
InitArgs ==
  { <<>>,
    [cache |-> "no-store"],
    [headers |-> [XRequestedWith |-> "XMLHttpRequest"]],
    [headers |-> <<>>] }

\* the requests the frontend can send with the token tok stored
RequestsWith(tok) ==
  {[via |-> "apiGet", options |-> apiGet(i, tok)] : i \in InitArgs} \cup
  {[via |-> "apiPost", options |-> apiPost(i, tok)] : i \in InitArgs} \cup
  {[via |-> "apiPut", options |-> apiPut(i, tok)] : i \in InitArgs} \cup
  {[via |-> "preview", options |-> PreviewOptions],
   [via |-> "commit", options |-> CommitOptions]}

\* the run exercises the API client
Calling == driver = "client"

ClientOnly == <<authState, authPhase, lsState, lsRemember, location, lastAuthOp,
                matchVars, scanVars, manualVars, mlVars, editVars, importVars,
                searchVars, pbiVars>>

\* a request is handed to fetch
SendRequest(r) ==
  /\ Calling
  /\ nextCall <= MaxClientCalls
  /\ r \in RequestsWith(lsToken)
  /\ lastRequest' = <<r>>
  /\ nextCall' = nextCall + 1
  /\ UNCHANGED <<lsToken, ClientOnly>>

\* setAuthToken(token), clearAuthToken()
setAuthToken(t) ==
  /\ Calling
  /\ t # lsToken
  /\ lsToken' = t
  /\ UNCHANGED <<lastRequest, nextCall, ClientOnly>>

-----------------------------------------------------------------------------
(* PowerBIEmbed page. A URL is <<scheme, rest>>; the empty string is <<>>.  *)

\* URLs the server, the cache and the environment can hold
EmbedUrls == { <<"https", "app.powerbi.com/report">>, <<"http", "intranet/report">> }

\* embedUrl.startsWith('http://')
StartsWithHttp(url) == url # <<>> /\ url[1] = "http"

\* e?.message || 'Power BI embed URL is not configured'
ErrorMessage(msg) == IF msg # "" THEN msg ELSE "Power BI embed URL is not configured"

\* what the component renders
EmbedView ==
  IF embedPhase = "unmounted" THEN "none"
  ELSE IF embedUrl = <<>>
       THEN IF embedLoading THEN "Loading Power BI" ELSE "Failed to load Power BI"
       ELSE IF httpsPage /\ StartsWithHttp(embedUrl)
            THEN "Mixed content blocked"
            ELSE "iframe"

\* the run exercises the PowerBIEmbed page
Embedding == driver = "embed"

EmbedOnly == <<coreVars, mlVars, editVars, authVars, searchVars, clientVars, refreshVars>>

\* localStorage.setItem('pbi-embed-url', url) inside try/catch
SetCached(url, stored) == lsEmbedUrl' = IF stored THEN url ELSE lsEmbedUrl

\* first render (state from the cache) and the effect starting load()
MountEmbed ==
  /\ Embedding
  /\ embedPhase = "unmounted"
  /\ embedUrl' = lsEmbedUrl
  /\ embedError' = ""
  /\ embedLoading' = TRUE
  /\ embedPhase' = "pending"
  /\ embedAnswer' = <<>>
  /\ cachedAtMount' = lsEmbedUrl
  /\ UNCHANGED <<lsEmbedUrl, envUrl, httpsPage, EmbedOnly>>

\* apiGet('/api/powerbi/embed-url') resolves; the cache write is ignored
EmbedResolvesKeepsUrl(url, stored) ==
  /\ Embedding
  /\ embedPhase = "pending"
  /\ embedLoading' = FALSE
  /\ embedPhase' = "settled"
  /\ embedAnswer' = <<[ok |-> TRUE, url |-> url]>>
  /\ UNCHANGED <<embedUrl, lsEmbedUrl, embedError, envUrl, httpsPage, cachedAtMount,
                 EmbedOnly>>

\* apiGet('/api/powerbi/embed-url') resolves with res.url (<<>> when missing)
EmbedResolves(url, stored) ==
  /\ Embedding
  /\ embedPhase = "pending"
  /\ embedUrl' = url
  /\ SetCached(url, stored)
  /\ embedLoading' = FALSE
  /\ embedPhase' = "settled"
  /\ embedAnswer' = <<[ok |-> TRUE, url |-> url]>>
  /\ UNCHANGED <<embedError, envUrl, httpsPage, cachedAtMount, EmbedOnly>>

\* apiGet('/api/powerbi/embed-url') rejects with an error of message msg
EmbedRejects(msg, stored) ==
  /\ Embedding
  /\ embedPhase = "pending"
  /\ IF envUrl # <<>>
     THEN /\ embedUrl' = envUrl
          /\ SetCached(envUrl, stored)
          /\ UNCHANGED embedError
     ELSE /\ embedError' = ErrorMessage(msg)
          /\ UNCHANGED <<embedUrl, lsEmbedUrl>>
  /\ embedLoading' = FALSE
  /\ embedPhase' = "settled"
  /\ embedAnswer' = <<[ok |-> FALSE, url |-> <<>>]>>
  /\ UNCHANGED <<envUrl, httpsPage, cachedAtMount, EmbedOnly>>

\* the page is left: cancelled = true, the component state is dropped
UnmountEmbed ==
  /\ Embedding
  /\ embedPhase # "unmounted"
  /\ embedPhase' = "unmounted"
  /\ embedUrl' = <<>> /\ embedLoading' = FALSE /\ embedError' = ""
  /\ embedAnswer' = <<>> /\ cachedAtMount' = <<>>
  /\ UNCHANGED <<lsEmbedUrl, envUrl, httpsPage, EmbedOnly>>

-----------------------------------------------------------------------------
(* PBIRefreshProvider (context/PBIRefreshContext.tsx). The event stream and *)
(* the status endpoint belong to the backend.                               *)

\* the run exercises the refresh context
Refreshing == driver = "refresh"

RefreshOnly == <<coreVars, mlVars, editVars, authVars, searchVars, clientVars, embedVars>>

\* today_count values of the status endpoint
QuotaCounts == {1, 2}

\* payload.status values of the stream's status events
StreamStatuses == {"running", "completed", "failed", "timeout"}

\* the status query of the mount effect, still unanswered
MountQuery == [kind |-> "mount", es |-> 0]

\* latest.status values the status endpoint can answer a fallback query of
\* stream es with: the terminal state the stream reported, when it reported
\* one and is the newest stream
LatestStatuses(es) ==
  IF es = nextEs - 1 /\ esTerminal = "completed" THEN {"Completed"}
  ELSE IF es = nextEs - 1 /\ esTerminal = "failed" THEN {"Failed"}
  ELSE {"Completed", "Failed", "Unknown"}

\* closeEs without the finishedRef guard
closeEsUnguarded(finalStatus, onDashboard) ==
  /\ finishedRef' = TRUE
  /\ esRef' = 0
  /\ refreshStatus' = finalStatus
  /\ applied' = applied + 1
  /\ UNCHANGED suppressed
  /\ IF finalStatus = "success" /\ onDashboard
     THEN reloadTimer' = TRUE /\ UNCHANGED notifications
     ELSE notifications' = Append(notifications, finalStatus) /\ UNCHANGED reloadTimer

\* closeEs(finalStatus), with location.pathname === '/dashboard' of its closure
closeEs(finalStatus, onDashboard) ==
  IF finishedRef
  THEN /\ suppressed' = TRUE
       /\ UNCHANGED <<finishedRef, esRef, refreshStatus, notifications, reloadTimer,
                      applied>>
  ELSE /\ finishedRef' = TRUE
       /\ esRef' = 0
       /\ refreshStatus' = finalStatus
       /\ applied' = applied + 1
       /\ UNCHANGED suppressed
       /\ IF finalStatus = "success" /\ onDashboard
          THEN reloadTimer' = TRUE /\ UNCHANGED notifications
          ELSE notifications' = Append(notifications, finalStatus)
               /\ UNCHANGED reloadTimer

\* triggerRefresh: powerbiTriggerRefresh() is sent
triggerRefresh ==
  /\ Refreshing
  /\ nextEs + triggers <= MaxRefreshes
  /\ triggers' = triggers + 1
  /\ UNCHANGED <<refreshStatus, todayCount, esRef, finishedRef, notifications,
                 awaiting, nextEs, esTerminal, reloadTimer, applied, suppressed,
                 RefreshOnly>>

\* powerbiTriggerRefresh() answers with res.ok; startEs() when it is true,
\* message.error otherwise (also when the request rejects)
startEs(ok) ==
  /\ Refreshing
  /\ triggers > 0
  /\ triggers' = triggers - 1
  /\ IF ok
     THEN /\ esRef' = nextEs
          /\ nextEs' = nextEs + 1
          /\ finishedRef' = FALSE
          /\ refreshStatus' = "processing"
          /\ notifications' = Append(notifications, "in progress")
          /\ esTerminal' = ""
          /\ applied' = 0
          /\ suppressed' = FALSE
     ELSE UNCHANGED <<esRef, nextEs, finishedRef, refreshStatus, notifications,
                      esTerminal, applied, suppressed>>
  /\ UNCHANGED <<todayCount, awaiting, reloadTimer, RefreshOnly>>

\* 'status' listener: the open stream delivers a status event
StatusEvent(payload, onDashboard) ==
  /\ Refreshing
  /\ esRef # 0 /\ esTerminal = ""
  /\ esTerminal' = IF payload = "running" THEN "" ELSE payload
  /\ CASE payload = "completed" ->
            /\ awaiting' = awaiting \cup {[kind |-> "status", es |-> esRef]}
            /\ UNCHANGED <<refreshStatus, esRef, finishedRef, notifications,
                           reloadTimer, applied, suppressed>>
       [] payload \in {"failed", "timeout"} ->
            /\ closeEs(payload, onDashboard)
            /\ UNCHANGED awaiting
       [] OTHER ->
            /\ refreshStatus' = "processing"
            /\ UNCHANGED <<awaiting, esRef, finishedRef, notifications, reloadTimer,
                           applied, suppressed>>
  /\ UNCHANGED <<todayCount, triggers, nextEs, RefreshOnly>>

\* 'error' listener: the open stream reports an error; the fallback status
\* query is sent unless the refresh is finished
ErrorEvent ==
  /\ Refreshing
  /\ esRef # 0
  /\ ~finishedRef
  /\ [kind |-> "error", es |-> esRef] \notin awaiting
  /\ awaiting' = awaiting \cup {[kind |-> "error", es |-> esRef]}
  /\ UNCHANGED <<refreshStatus, todayCount, esRef, finishedRef, notifications,
                 triggers, nextEs, esTerminal, reloadTimer, applied, suppressed,
                 RefreshOnly>>

\* the status query of a listener or of the mount effect answers with
\* today_count n, or fails (n = -1)
SetTodayCount(n) == todayCount' = IF n # -1 THEN n ELSE todayCount

\* 'status' listener after its await: today's count, then closeEs('success')
QuotaAnswer(w, n, onDashboard) ==
  /\ Refreshing
  /\ w \in awaiting /\ w.kind = "status"
  /\ awaiting' = awaiting \ {w}
  /\ SetTodayCount(n)
  /\ closeEs("success", onDashboard)
  /\ UNCHANGED <<triggers, nextEs, esTerminal, RefreshOnly>>

\* 'error' listener after its await: latest is "" when the query failed
FallbackAnswer(w, latest, n, onDashboard) ==
  /\ Refreshing
  /\ w \in awaiting /\ w.kind = "error"
  /\ latest \in LatestStatuses(w.es) \cup {""}
  /\ awaiting' = awaiting \ {w}
  /\ IF latest = "Completed"
     THEN SetTodayCount(n) /\ closeEs("success", onDashboard)
     ELSE /\ UNCHANGED todayCount
          /\ closeEs(IF latest = "Failed" THEN "failed" ELSE "error", onDashboard)
  /\ UNCHANGED <<triggers, nextEs, esTerminal, RefreshOnly>>

\* the status query of the mount effect answers
MountAnswer(n) ==
  /\ Refreshing
  /\ MountQuery \in awaiting
  /\ awaiting' = awaiting \ {MountQuery}
  /\ SetTodayCount(n)
  /\ UNCHANGED <<refreshStatus, esRef, finishedRef, notifications, triggers, nextEs,
                 esTerminal, reloadTimer, applied, suppressed, RefreshOnly>>

\* window.location.reload(): the provider is constructed again
PageReload ==
  /\ Refreshing
  /\ reloadTimer
  /\ refreshStatus' = "idle" /\ todayCount' = -1
  /\ esRef' = 0 /\ finishedRef' = FALSE
  /\ notifications' = <<>> /\ triggers' = 0
  /\ awaiting' = {MountQuery}
  /\ esTerminal' = "" /\ reloadTimer' = FALSE
  /\ applied' = 0 /\ suppressed' = FALSE
  /\ UNCHANGED <<nextEs, RefreshOnly>>

-----------------------------------------------------------------------------
(* MachineLearning page: Feature-Symptom Matcher                            *)

\* [a-z0-9]
IsAlnum(c) == c \in Range(LowerChars) \cup Digits

\* .replace(/[^a-z0-9]+/g, ' '): every character outside [a-z0-9] becomes a
\* blank; the runs are made one blank by CollapseSpaces
NonAlnumToSpace(s) == [i \in 1..Len(s) |-> IF IsAlnum(s[i]) THEN s[i] ELSE " "]

\* normalize: lower-case, runs outside [a-z0-9] to one blank, trim
normalize(s) == Trim(CollapseSpaces(NonAlnumToSpace(ToLowerCase(s))))

\* .replace(/^rf_/i, '')
StripRfPrefix(s) ==
  IF Len(s) >= 3 /\ LowerChar(s[1]) = "r" /\ LowerChar(s[2]) = "f" /\ s[3] = "_"
  THEN SubSeq(s, 4, Len(s)) ELSE s

\* variant: the prefix is kept
rfNormalizeKeepPrefix(s) == normalize(SepToSpace(s))

\* rfNormalize: prefix removed, underscores to blanks, then normalize
rfNormalize(s) == normalize(SepToSpace(StripRfPrefix(s)))

\* byNorm[key]: index in symptomItems of the first Symptom whose norm is key,
\* 0 if there is none; Symptoms with an empty norm are filtered out
ByNorm(items, key) ==
  IF key # <<>> /\ \E i \in 1..Len(items) : normalize(items[i].symptom) = key
  THEN CHOOSE i \in 1..Len(items) :
         /\ normalize(items[i].symptom) = key
         /\ \A j \in 1..(i - 1) : normalize(items[j].symptom) # key
  ELSE 0

\* rfMatchMap: <<>> stands for {}, <<m>> for a MatchInfo with a symptom
rfMatchMap ==
  [rf \in Range(rfColumns) |->
     LET i == ByNorm(symptomItems, rfNormalize(rf))
     IN IF i # 0
        THEN <<[symptom |-> symptomItems[i].symptom,
                category_id |-> symptomItems[i].category_id]>>
        ELSE <<>>]

\* variant: an identifier is unmatched when its key is empty
IsUnmatchedEmptyKey(k) == rfNormalize(k) = <<>>

\* !(rfMatchMap[k] && rfMatchMap[k].symptom)
IsUnmatched(k) == ~(k \in DOMAIN rfMatchMap /\ rfMatchMap[k] # <<>>)

matchedRfKeys ==
  LET matched(k) == k \in DOMAIN rfMatchMap /\ rfMatchMap[k] # <<>>
  IN SelectSeq(rfColumns, matched)

unmatchedRfKeys == SelectSeq(rfColumns, IsUnmatched)

\* String.prototype.includes
RECURSIVE IncludesText(_, _)
IncludesText(s, q) ==
  \/ q = <<>>
  \/ Len(s) >= Len(q) /\ (SubSeq(s, 1, Len(q)) = q \/ IncludesText(Tail(s), q))

\* the identifiers of the 'Unmatched Features' card
filteredUnmatchedKeys ==
  LET q == ToLowerCase(Trim(rfSearch))
      hit(k) == q = <<>> \/ IncludesText(ToLowerCase(k), q)
  IN SelectSeq(unmatchedRfKeys, hit)

\* feature identifiers the backend may list
RfNames ==
  { <<"R","F","_","a","_","b">>, <<"r","f","_","A","-","b">>, <<"R","f","_","c">>,
    <<"R","F","_">>, <<" ","R","F","_","c">>, <<"R","F","_","U+00E9">> }

\* Symptoms the backend may list; category_id 0 is null
SymptomChoices ==
  { [symptom |-> <<"A"," "," ","b">>, category_id |-> 1],
    [symptom |-> <<"a","_","B">>, category_id |-> 2],
    [symptom |-> <<"C">>, category_id |-> 1],
    [symptom |-> <<"r","f","_","c">>, category_id |-> 0],
    [symptom |-> <<"U+00E9">>, category_id |-> 1] }

RfLists == UNION {[1..n -> RfNames] : n \in 0..MaxRfColumns}
SymptomLists == UNION {[1..n -> SymptomChoices] : n \in 0..MaxSymptomItems}

\* texts typed into the feature search box
SearchTexts == { <<>>, <<"C">> }

MLVarsOnly == <<matchVars, scanVars, manualVars, importVars, editVars, authVars,
                extraVars>>

\* the feature list arrives: .then and .finally of the first effect
LoadRfColumns(cols) ==
  /\ driver = "ml" /\ ~rfLoaded
  /\ rfColumns' = cols
  /\ features' = [k \in Range(cols) |-> 0]
  /\ rfLoaded' = TRUE
  /\ UNCHANGED <<symptomItems, symptomsLoaded, rfSearch, mlError, MLVarsOnly>>

\* the feature list request fails: .catch and .finally
LoadRfColumnsFails ==
  /\ driver = "ml" /\ ~rfLoaded
  /\ mlError' = TRUE
  /\ rfLoaded' = TRUE
  /\ UNCHANGED <<rfColumns, features, symptomItems, symptomsLoaded, rfSearch, MLVarsOnly>>

\* the Symptom list arrives with ok: .then and .finally of the second effect
LoadSymptoms(items) ==
  /\ driver = "ml" /\ ~symptomsLoaded
  /\ symptomItems' = items
  /\ symptomsLoaded' = TRUE
  /\ UNCHANGED <<rfColumns, features, rfLoaded, rfSearch, mlError, MLVarsOnly>>

\* the Symptom list arrives without ok (nothing is set) or the request fails
LoadSymptomsFails(thrown) ==
  /\ driver = "ml" /\ ~symptomsLoaded
  /\ mlError' = (mlError \/ thrown)
  /\ symptomsLoaded' = TRUE
  /\ UNCHANGED <<rfColumns, features, rfLoaded, symptomItems, rfSearch, MLVarsOnly>>

\* the feature search box, onChange
SetRfSearch(q) ==
  /\ driver = "ml"
  /\ rfSearch' = q /\ rfSearch' # rfSearch
  /\ UNCHANGED <<rfColumns, features, rfLoaded, symptomItems, symptomsLoaded,
                 mlError, MLVarsOnly>>

\* the MachineLearning page is as constructed
MLIdle ==
  /\ rfColumns = <<>> /\ symptomItems = <<>> /\ rfLoaded = FALSE
  /\ symptomsLoaded = FALSE /\ features = <<>> /\ rfSearch = <<>>
  /\ mlError = FALSE

\* the search of the existing symptoms is as constructed
SearchIdle ==
  /\ existingSearch = <<>> /\ searchInner = <<>> /\ debouncePending = FALSE
  /\ searchReqs = {} /\ nextSearch = 1

\* no request has been sent through the API client
ClientIdle == lastRequest = <<>> /\ nextCall = 1

\* PowerBIEmbed is not mounted
EmbedIdle ==
  /\ embedPhase = "unmounted"
  /\ embedUrl = <<>> /\ embedLoading = FALSE /\ embedError = ""
  /\ lsEmbedUrl = <<>> /\ envUrl = <<>> /\ httpsPage = FALSE
  /\ embedAnswer = <<>> /\ cachedAtMount = <<>>

\* PBIRefreshProvider as constructed; todayCount -1 is null
RefreshIdle ==
  /\ refreshStatus = "idle" /\ todayCount = -1
  /\ esRef = 0 /\ finishedRef = FALSE
  /\ notifications = <<>> /\ triggers = 0 /\ awaiting = {}
  /\ nextEs = 1 /\ esTerminal = "" /\ reloadTimer = FALSE
  /\ applied = 0 /\ suppressed = FALSE

\* the pages and modules of extraVars are as constructed
ExtraIdle == SearchIdle /\ ClientIdle /\ EmbedIdle /\ RefreshIdle

\* the pages beside the wizard and the worklist are as constructed
SideIdle ==
  /\ MLIdle
  /\ existingItems = <<>> /\ editModal = <<>> /\ editFlight = <<>>
  /\ AuthIdle
  /\ ExtraIdle

-----------------------------------------------------------------------------
(* Taxonomy Reconciler backend: stored records and the Symptom table        *)

\* display string of the i-th distinct term of the stored records
RecordSymptom(i) == <<UpperChars[i], "x">>

\* distinct terms extracted from the stored records, in order of first occurrence
RecordTokens == [i \in 1..MaxSymptoms |-> RecordSymptom(i)]

\* trimmed and case-folded term: the key terms are compared by
SymptomKey(s) == ToLowerCase(Trim(s))

\* keys of the rows of the Symptom table
TableKeys(table) == {SymptomKey(table[i].symptom) : i \in 1..Len(table)}

\* scan: terms of the records that are entirely unknown to the Symptom table
MissingNew(table) ==
  LET known == TableKeys(table)
      unknown(t) == SymptomKey(t) \notin known
  IN SelectSeq(RecordTokens, unknown)

\* taxonomy list, unassigned only: names of the rows without a category (0)
UnassignedItems(table) ==
  LET isNull(r) == r.category = 0
      rows == SelectSeq(table, isNull)
  IN [i \in 1..Len(rows) |-> rows[i].symptom]

\* insert_many with one item: a colliding name is a no-op (DuplicateSymptom)
InsertMany(table, s, cid) ==
  IF SymptomKey(s) \in TableKeys(table) THEN table
  ELSE Append(table, [symptom |-> s, category |-> cid])

\* update_many with one item: an absent name is a no-op (NotFound)
UpdateMany(table, s, cid) ==
  [i \in 1..Len(table) |->
     IF table[i].symptom = s THEN [table[i] EXCEPT !.category = cid]
     ELSE table[i]]

\* the first term of the records is known but uncategorized, stored in lower case
InitialSymptomTable ==
  <<[symptom |-> ToLowerCase(RecordSymptom(1)), category |-> 0]>>

-----------------------------------------------------------------------------
(* SymptomsVsCategories page: the missing-symptoms worklist                 *)

Categories == {1}

pageSizeOptions == <<10, 25, 50, 100>>

\* the page sizes the user picks in this run
PickedPageSizes == {pageSizeOptions[1], pageSizeOptions[2]}

\* .map(s => s.trim()).filter(s => !!s)
Clean(list) ==
  LET nonEmpty(t) == t # <<>>
  IN SelectSeq([i \in 1..Len(list) |-> Trim(list[i])], nonEmpty)

\* mergedMap: the first display string of every lower-cased key, in insertion
\* order; m holds the keys and the values of the map
RECURSIVE MergeInto(_, _)
MergeInto(m, list) ==
  IF list = <<>> THEN m
  ELSE LET s == Head(list)
           k == ToLowerCase(s)
       IN MergeInto(IF k \in m.keys THEN m
                    ELSE [keys |-> m.keys \cup {k}, values |-> Append(m.values, s)],
                    Tail(list))

\* mergedList: unassigned display strings first, then the new terms
MergedList(unassignedResp, missing) ==
  MergeInto(MergeInto([keys |-> {}, values |-> <<>>], Clean(unassignedResp)),
            Clean(missing)).values

\* variant: every item is classified new
TypeMapAllNew(mergedList, unassignedResp) == [s \in Range(mergedList) |-> "new"]

\* typeMap of a merged list: existing_null overrides new
TypeMap(mergedList, unassignedResp) ==
  LET unassignedNorms ==
        {ToLowerCase(x) : x \in Range(Clean(unassignedResp))}
  IN [s \in Range(mergedList) |->
        IF ToLowerCase(s) \in unassignedNorms THEN "existing_null" ELSE "new"]

\* new Set(list.map(trim).filter(Boolean).map(toLowerCase))
KeySet(list) == {ToLowerCase(t) : t \in Range(Clean(list))}

\* result?.missing_items ?? [] of a result value
ItemsOf(r) == IF r = <<>> THEN <<>> ELSE r[1]

\* silentScan's comparison of the current and the new key set
Changed(cur, new) ==
  LET curSet == KeySet(cur)
      newSet == KeySet(new)
  IN \/ Cardinality(curSet) # Cardinality(newSet)
     \/ \E n \in newSet : n \notin curSet

\* the worklist shown
missingItems == ItemsOf(result)

\* Math.max(1, Math.ceil(n / ps))
TotalPages(n, ps) == IF n = 0 THEN 1 ELSE (n + ps - 1) \div ps

\* effect on [totalPages, page]: a page past the end falls back to the last
ClampPage(p, n, ps) == IF p > TotalPages(n, ps) THEN TotalPages(n, ps) ELSE p

\* rows of the current page
pageItems ==
  LET last == IF page * pageSize < Len(missingItems)
              THEN page * pageSize ELSE Len(missingItems)
  IN SubSeq(missingItems, (page - 1) * pageSize + 1, last)

\* the items the user works on in this run: those of the current page among
\* the first two terms of the records (one known to the Symptom table, one
\* not), as the records or the table spell them
WorkedStrings ==
  {RecordSymptom(i) : i \in {1, 2}} \cup {ToLowerCase(RecordSymptom(i)) : i \in {1, 2}}

WorkedItems == Range(pageItems) \cap WorkedStrings

\* the state a function of this render closes over
Closure == [result |-> result, refreshing |-> refreshing]

\* the run is a session on the worklist page
Scanning == driver = "scan"

\* a scan in flight; store is history: the Symptom table its first request read
NewScan(kind, cur) ==
  [id |-> nextScan, kind |-> kind, cur |-> cur, phase |-> 0,
   missing |-> <<>>, unassigned |-> <<>>, store |-> <<>>]

\* handleScan up to its first request (menu click on 'Missing symptoms')
HandleScanStart ==
  /\ Scanning
  /\ nextScan <= MaxScans
  /\ result' = <<>>
  /\ page' = ClampPage(page, 0, pageSize)
  /\ scans' = scans \cup {NewScan("scan", <<>>)}
  /\ nextScan' = nextScan + 1
  /\ UNCHANGED <<missingTypes, selections, pageSize, insertLoading, autoRefresh,
                  refreshing, tickClosure, saving,
                 symptomTable, offScanVars, importVars>>

\* silentScan, as closed over c, up to its first request
SilentScanStart(c) ==
  /\ ~c.refreshing
  /\ nextScan <= MaxScans
  /\ refreshing' = TRUE
  /\ scans' = scans \cup {NewScan("silent", c.result)}
  /\ nextScan' = nextScan + 1

\* 'Refresh Now', a loading button while refreshing
RefreshNow ==
  /\ Scanning
  /\ ~refreshing
  /\ SilentScanStart(Closure)
  /\ UNCHANGED <<result, missingTypes, selections, page, pageSize, insertLoading,
                 autoRefresh, tickClosure, saving,
                 symptomTable, offScanVars, importVars>>

\* the countdown reaches its end: the interval callback calls the silentScan
\* it closed over
CountdownFire ==
  /\ Scanning
  /\ tickClosure # <<>>
  /\ SilentScanStart(tickClosure[1])
  /\ UNCHANGED <<result, missingTypes, selections, page, pageSize, insertLoading,
                 autoRefresh, tickClosure, saving,
                 symptomTable, offScanVars, importVars>>

ScanOnly == <<result, missingTypes, selections, page, pageSize, insertLoading,
              autoRefresh, refreshing, tickClosure, saving,
              nextScan, symptomTable, offScanVars, importVars>>

\* the backend answers the reconciliation scan (dry run)
ServeMissing(s) ==
  /\ s \in scans /\ s.phase = 0
  /\ scans' = (scans \ {s}) \cup
       {[s EXCEPT !.phase = 1, !.missing = MissingNew(symptomTable),
                  !.store = symptomTable]}
  /\ UNCHANGED ScanOnly

\* the backend answers the unassigned-only taxonomy list
ServeUnassigned(s) ==
  /\ s \in scans /\ s.phase = 1
  /\ scans' = (scans \ {s}) \cup
       {[s EXCEPT !.phase = 2, !.unassigned = UnassignedItems(symptomTable)]}
  /\ UNCHANGED ScanOnly

\* one of the two requests fails: catch, and for silentScan finally
ScanFails(s) ==
  /\ s \in scans /\ s.phase < 2
  /\ scans' = scans \ {s}
  /\ refreshing' = IF s.kind = "silent" THEN FALSE ELSE refreshing
  /\ UNCHANGED <<result, missingTypes, selections, page, pageSize, insertLoading,
                 autoRefresh, tickClosure, saving, nextScan,
                 symptomTable, offScanVars, importVars>>

\* handleScan after both answers
HandleScanFinish(s) ==
  /\ s \in scans /\ s.kind = "scan" /\ s.phase = 2
  /\ scans' = scans \ {s}
  /\ LET mergedList == MergedList(s.unassigned, s.missing)
     IN /\ missingTypes' = TypeMap(mergedList, s.unassigned)
        /\ result' = <<mergedList>>
        /\ selections' = [x \in Range(mergedList) |-> 0]
        /\ page' = ClampPage(1, Len(mergedList), pageSize)
  /\ UNCHANGED <<pageSize, insertLoading, autoRefresh,
                 refreshing, tickClosure, saving, nextScan, symptomTable,
                 offScanVars, importVars>>

\* silentScan after both answers
SilentScanFinish(s) ==
  /\ s \in scans /\ s.kind = "silent" /\ s.phase = 2
  /\ scans' = scans \ {s}
  /\ LET mergedList == MergedList(s.unassigned, s.missing)
     IN IF Changed(ItemsOf(s.cur), mergedList)
        THEN /\ missingTypes' = TypeMap(mergedList, s.unassigned)
             /\ result' = <<mergedList>>
             /\ selections' = [x \in Range(mergedList) |->
                                 IF x \in DOMAIN selections THEN selections[x] ELSE 0]
             /\ page' = ClampPage(1, Len(mergedList), pageSize)
        ELSE UNCHANGED <<missingTypes, result, selections, page>>
  /\ refreshing' = FALSE
  /\ UNCHANGED <<pageSize, insertLoading, autoRefresh,
                 tickClosure, saving, nextScan, symptomTable, offScanVars,
                 importVars>>

\* the category Select of a row: '' (0) or a category id
SetSelection(s, c) ==
  /\ Scanning
  /\ s \in WorkedItems
  /\ s \in DOMAIN selections /\ selections[s] # c
  /\ selections' = [selections EXCEPT ![s] = c]
  /\ UNCHANGED <<result, missingTypes, page, pageSize, insertLoading, autoRefresh,
                  refreshing, tickClosure, scans, saving,
                 nextScan, symptomTable, offScanVars, importVars>>

\* variant: every item is inserted
SaveEndpointInsertOnly(t) == "insert_many"

\* the endpoint handleSaveSingle posts an item of type t to
SaveEndpoint(t) == IF t = "existing_null" THEN "update_many" ELSE "insert_many"

\* handleSaveSingle up to its request; Save is a loading button while a save runs
HandleSaveSingleStart(s) ==
  /\ Scanning
  /\ ~insertLoading
  /\ s \in WorkedItems
  /\ s \in DOMAIN selections /\ selections[s] # 0
  /\ s \in DOMAIN missingTypes
  /\ insertLoading' = TRUE
  /\ saving' = <<[symptom |-> s, category |-> selections[s],
                  endpoint |-> SaveEndpoint(missingTypes[s]), served |-> FALSE]>>
  /\ UNCHANGED <<result, missingTypes, selections, page, pageSize, autoRefresh,
                  refreshing, tickClosure, scans, nextScan,
                 symptomTable, offScanVars, importVars>>

\* the backend applies update_many or insert_many
ServeSave ==
  /\ saving # <<>> /\ ~saving[1].served
  /\ symptomTable' =
       IF saving[1].endpoint = "update_many"
       THEN UpdateMany(symptomTable, saving[1].symptom, saving[1].category)
       ELSE InsertMany(symptomTable, saving[1].symptom, saving[1].category)
  /\ saving' = <<[saving[1] EXCEPT !.served = TRUE]>>
  /\ UNCHANGED <<result, missingTypes, selections, page, pageSize, insertLoading,
                 autoRefresh, refreshing, tickClosure, scans,
                 nextScan, offScanVars, importVars>>

\* handleSaveSingle after the answer: the row leaves the worklist
HandleSaveSingleFinish ==
  /\ Scanning
  /\ saving # <<>> /\ saving[1].served
  /\ LET s == saving[1].symptom
         keep(x) == x # s
         left == SelectSeq(missingItems, keep)
     IN /\ result' = IF result = <<>> THEN result ELSE <<left>>
        /\ selections' = Without(selections, s)
        /\ missingTypes' = Without(missingTypes, s)
        /\ page' = ClampPage(page, Len(left), pageSize)
  /\ insertLoading' = FALSE
  /\ saving' = <<>>
  /\ UNCHANGED <<pageSize, autoRefresh, refreshing,
                 tickClosure, scans, nextScan, symptomTable, offScanVars,
                 importVars>>

\* the save request fails: nothing is removed
HandleSaveSingleFails ==
  /\ Scanning
  /\ saving # <<>> /\ ~saving[1].served
  /\ insertLoading' = FALSE
  /\ saving' = <<>>
  /\ UNCHANGED <<result, missingTypes, selections, page, pageSize, autoRefresh,
                  refreshing, tickClosure, scans, nextScan,
                 symptomTable, offScanVars, importVars>>

-----------------------------------------------------------------------------
(* SymptomsVsCategories page: the edit dialog of an existing symptom, and   *)
(* the rename endpoint of the Taxonomy Store                                *)

\* rename: the outcome for the table
RenameOutcome(table, old, new) ==
  IF \A i \in 1..Len(table) : table[i].symptom # old THEN "NotFound"
  ELSE IF \E i \in 1..Len(table) :
            table[i].symptom # old /\ SymptomKey(table[i].symptom) = SymptomKey(new)
       THEN "DuplicateSymptom"
  ELSE "ok"

\* rename: the key changes, the category reference stays; no-op unless ok
Rename(table, old, new) ==
  IF RenameOutcome(table, old, new) # "ok" THEN table
  ELSE [i \in 1..Len(table) |->
          IF table[i].symptom = old THEN [table[i] EXCEPT !.symptom = new]
          ELSE table[i]]

\* the Symptom table the edit dialog is exercised on
EditSymptomTable ==
  <<[symptom |-> ToLowerCase(RecordSymptom(1)), category |-> 1],
    [symptom |-> RecordSymptom(2), category |-> 0]>>

\* texts typed into the name field of the dialog
EditNames ==
  { <<>>, <<" ">>, RecordSymptom(2), <<" ">> \o RecordSymptom(2) \o <<" ">>,
    RecordSymptom(3) }

\* the run is a session on the existing-symptoms tab
Editing == driver = "edit"

EditOnly == <<matchVars, scanVars, manualVars, mlVars, authVars, importVars, extraVars>>

\* menu click on 'All symptoms': fetchExisting with its answer
FetchExisting ==
  /\ Editing
  /\ existingItems' = symptomTable
  /\ existingItems' # existingItems
  /\ UNCHANGED <<editModal, editFlight, EditOnly>>

\* openEdit(symptom, categoryId) from the Edit button of a row
openEdit(i) ==
  /\ Editing
  /\ editModal = <<>>
  /\ i \in 1..Len(existingItems)
  /\ editModal' = <<[oldSymptom |-> existingItems[i].symptom,
                     name |-> existingItems[i].symptom,
                     categoryId |-> existingItems[i].category]>>
  /\ UNCHANGED <<existingItems, editFlight, EditOnly>>

\* closeEdit, the dialog's onCancel
closeEdit ==
  /\ Editing
  /\ editModal # <<>>
  /\ editModal' = <<>>
  /\ UNCHANGED <<existingItems, editFlight, EditOnly>>

\* the name field of the dialog, onChange
SetEditName(n) ==
  /\ Editing
  /\ editModal # <<>> /\ editModal[1].name # n
  /\ editModal' = <<[editModal[1] EXCEPT !.name = n]>>
  /\ UNCHANGED <<existingItems, editFlight, EditOnly>>

\* the category Select of the dialog, onChange; 0 is 'Unassigned'
SetEditCategory(c) ==
  /\ Editing
  /\ editModal # <<>> /\ editModal[1].categoryId # c
  /\ editModal' = <<[editModal[1] EXCEPT !.categoryId = c]>>
  /\ UNCHANGED <<existingItems, editFlight, EditOnly>>

\* saveEdit up to its first request: the rename when the name has changed,
\* else the category update
saveEditStart ==
  /\ Editing
  /\ editModal # <<>> /\ editFlight = <<>>
  /\ nextScan <= MaxScans
  /\ LET name == Trim(editModal[1].name)
     IN /\ name # <<>>
        /\ editFlight' = <<[stage |-> IF name # editModal[1].oldSymptom
                                       THEN "rename" ELSE "update",
                            oldSymptom |-> editModal[1].oldSymptom,
                            name |-> name,
                            cid |-> editModal[1].categoryId,
                            answered |-> FALSE, ok |-> FALSE]>>
  /\ UNCHANGED <<existingItems, editModal, EditOnly>>

\* the backend answers the rename
ServeRename ==
  /\ editFlight # <<>> /\ editFlight[1].stage = "rename" /\ ~editFlight[1].answered
  /\ symptomTable' = Rename(symptomTable, editFlight[1].oldSymptom, editFlight[1].name)
  /\ editFlight' = <<[editFlight[1] EXCEPT
                        !.answered = TRUE,
                        !.ok = (RenameOutcome(symptomTable, editFlight[1].oldSymptom,
                                              editFlight[1].name) = "ok")]>>
  /\ UNCHANGED <<result, missingTypes, selections, page, pageSize, insertLoading,
                 autoRefresh, refreshing, tickClosure, scans, saving, nextScan,
                 existingItems, editModal, matchVars, manualVars, mlVars, authVars,
                 importVars, extraVars>>

\* variant: the answer of the rename is not looked at
RenamePassedAlways(data) == TRUE

\* if (!data.ok) throw
RenamePassed(data) == data.ok

\* saveEdit after the answer of the rename: the category update is sent, or
\* the error is shown (catch)
saveEditAfterRename ==
  /\ Editing
  /\ editFlight # <<>> /\ editFlight[1].stage = "rename" /\ editFlight[1].answered
  /\ editFlight' = IF RenamePassed(editFlight[1])
                   THEN <<[editFlight[1] EXCEPT !.stage = "update",
                                                !.answered = FALSE, !.ok = FALSE]>>
                   ELSE <<>>
  /\ UNCHANGED <<existingItems, editModal, EditOnly>>

\* the backend answers the category update of the dialog
ServeEditUpdate ==
  /\ editFlight # <<>> /\ editFlight[1].stage = "update" /\ ~editFlight[1].answered
  /\ symptomTable' = UpdateMany(symptomTable, editFlight[1].name, editFlight[1].cid)
  /\ editFlight' = <<[editFlight[1] EXCEPT !.answered = TRUE, !.ok = TRUE]>>
  /\ UNCHANGED <<result, missingTypes, selections, page, pageSize, insertLoading,
                 autoRefresh, refreshing, tickClosure, scans, saving, nextScan,
                 existingItems, editModal, matchVars, manualVars, mlVars, authVars,
                 importVars, extraVars>>

\* saveEdit after the answer of the update: closeEdit, fetchExisting with its
\* answer, handleScan up to its first request
saveEditFinish ==
  /\ Editing
  /\ editFlight # <<>> /\ editFlight[1].stage = "update" /\ editFlight[1].answered
  /\ editModal' = <<>>
  /\ existingItems' = symptomTable
  /\ result' = <<>>
  /\ page' = ClampPage(page, 0, pageSize)
  /\ scans' = scans \cup {NewScan("scan", <<>>)}
  /\ nextScan' = nextScan + 1
  /\ editFlight' = <<>>
  /\ UNCHANGED <<missingTypes, selections, pageSize, insertLoading, autoRefresh,
                 refreshing, tickClosure, saving, symptomTable,
                 matchVars, manualVars, mlVars, authVars, importVars, extraVars>>

\* a request of saveEdit fails: catch
saveEditFails ==
  /\ Editing
  /\ editFlight # <<>> /\ ~editFlight[1].answered
  /\ editFlight' = <<>>
  /\ UNCHANGED <<existingItems, editModal, EditOnly>>

-----------------------------------------------------------------------------
(* SymptomsVsCategories page: search of the existing symptoms               *)

\* the run is a session on the search box of the existing-symptoms tab
Searching == driver = "search"

SearchOnly == <<existingItems, editModal, editFlight, matchVars, scanVars,
                manualVars, mlVars, authVars, importVars, clientVars, pbiVars>>

\* texts typed into the search box
SearchBoxTexts == { <<>>, <<"a">>, <<"b">>, <<" ", "b", "x">> }

\* Taxonomy list: the Symptoms whose name holds q, compared case-insensitively
ListSymptoms(table, q) ==
  LET hit(row) == IncludesText(ToLowerCase(row.symptom), ToLowerCase(q))
  IN SelectSeq(table, hit)

\* Input.Search onChange: setInner; the effect on [inner] restarts the timer
TypeSearch(t) ==
  /\ Searching
  /\ t # searchInner
  /\ searchInner' = t
  /\ debouncePending' = TRUE
  /\ UNCHANGED <<existingSearch, searchReqs, nextSearch, SearchOnly>>

\* the search parameter of the fetchExisting that onChange(v) calls:
\* fetchExisting reads the existingSearch of the render it belongs to
SearchParam(v, rendered) == Trim(rendered)

\* the timer of DebouncedExistingSearch fires: onChange(inner) of the page,
\* with fetchExisting up to its request
DebounceFire ==
  /\ Searching
  /\ debouncePending
  /\ debouncePending' = FALSE
  /\ IF searchInner # existingSearch
     THEN /\ nextSearch <= MaxSearches
          /\ existingSearch' = searchInner
          /\ searchReqs' = searchReqs \cup
               {[id |-> nextSearch, search |-> SearchParam(searchInner, existingSearch),
                 answered |-> FALSE, items |-> <<>>]}
          /\ nextSearch' = nextSearch + 1
     ELSE UNCHANGED <<existingSearch, searchReqs, nextSearch>>
  /\ UNCHANGED <<searchInner, SearchOnly>>

\* the backend answers a list request
ServeSearch(r) ==
  /\ r \in searchReqs /\ ~r.answered
  /\ searchReqs' = (searchReqs \ {r}) \cup
       {[r EXCEPT !.answered = TRUE, !.items = ListSymptoms(symptomTable, r.search)]}
  /\ UNCHANGED <<existingSearch, searchInner, debouncePending, nextSearch, SearchOnly>>

\* fetchExisting after the answer
SearchAnswer(r) ==
  /\ Searching
  /\ r \in searchReqs /\ r.answered
  /\ searchReqs' = searchReqs \ {r}
  /\ existingItems' = r.items
  /\ UNCHANGED <<existingSearch, searchInner, debouncePending, nextSearch,
                 editModal, editFlight, matchVars, scanVars, manualVars, mlVars,
                 authVars, importVars, clientVars, pbiVars>>

\* the list request fails or is answered with ok false: the list stays
SearchFails(r) ==
  /\ Searching
  /\ r \in searchReqs /\ ~r.answered
  /\ searchReqs' = searchReqs \ {r}
  /\ UNCHANGED <<existingSearch, searchInner, debouncePending, nextSearch, SearchOnly>>

\* Pagination onChange(p, ps)
ChangePagination(p, ps) ==
  /\ Scanning
  /\ p \in 1..TotalPages(Len(missingItems), ps)
  /\ <<p, ps>> # <<page, pageSize>>
  /\ page' = p
  /\ pageSize' = ps
  /\ UNCHANGED <<result, missingTypes, selections, insertLoading, autoRefresh,
                  refreshing, tickClosure, scans, saving,
                 nextScan, symptomTable, offScanVars, importVars>>

\* the countdown effect after a change of its dependencies: a new interval
\* whose callback closes over the silentScan of this render, or none
CountdownEffect(auto) == IF auto THEN <<Closure>> ELSE <<>>

\* the Auto switch
SetAutoRefresh(v) ==
  /\ Scanning
  /\ v # autoRefresh
  /\ autoRefresh' = v
  /\ tickClosure' = CountdownEffect(v)
  /\ UNCHANGED <<result, missingTypes, selections, page, pageSize, insertLoading,
                  refreshing, scans, saving, nextScan,
                 symptomTable, offScanVars, importVars>>

\* the page is not mounted
ScanIdle ==
  /\ result = <<>> /\ missingTypes = <<>> /\ selections = <<>>
  /\ page = 1 /\ pageSize = 25 /\ insertLoading = FALSE
  /\ autoRefresh = TRUE /\ refreshing = FALSE
  /\ tickClosure = <<>> /\ scans = {} /\ saving = <<>> /\ nextScan = 1
  /\ symptomTable = InitialSymptomTable

-----------------------------------------------------------------------------
(* Specification of the import pipeline: the backend, driven by one wizard  *)
(* session or by direct API sessions, and the matcher on drawn headers      *)

WizardInit ==
  /\ step = "select" /\ token = 0 /\ filename = "" /\ totalRows = 0
  /\ missingCsv = <<>> /\ missingDb = <<>> /\ canImport = FALSE
  /\ mode = "append" /\ overwriteConfirmed = FALSE /\ loading = FALSE
  /\ tickedSinceSelect = FALSE
  /\ rejected = {}

\* VITE_MAX_UPLOAD_MB is unset in this build
BuildDefault == maxUploadRaw = EnvUnset

NetInit == reqs = {} /\ resps = {} /\ nextReq = 1

ServerInit ==
  /\ cache = <<>> /\ nextTok = 1 /\ txn = <<>> /\ lock = 0
  /\ issued = <<>> /\ committed = {}

Init ==
  /\ WizardInit /\ NetInit /\ ServerInit /\ BuildDefault
  /\ mOut = <<>>
  /\ ScanIdle
  /\ ManualIdle /\ SideIdle
  /\ \/ /\ driver = "wizard"
        /\ dataTable = PriorRows
        /\ storageSchema = StorageNoMNA
        /\ mIn = <<>>
     \/ /\ driver = "api"
        /\ dataTable \in {<<>>, PriorRows}
        /\ storageSchema = StorageNoMNA
        /\ mIn = <<>>
     \/ /\ driver = "matcher"
        /\ dataTable = <<>>
        /\ storageSchema \in StorageOptions
        /\ mIn \in {<<c>> : c \in [1..MaxVaried -> Choices]}

WizardNext ==
  \/ \E f \in DroppableFiles : DropFile(f)
  \/ \E d \in resps : DeliverPreview(d)
  \/ \E d \in resps : DeliverCommit(d)
  \/ EnterManual
  \/ BackToUpload
  \/ PreviewBack
  \/ PreviewNext
  \/ ModeBack
  \/ \E next \in 0..4 : StepsChange(next)
  \/ \E m \in {"append", "overwrite"} : SetMode(m)
  \/ ToggleConfirm
  \/ StartImport
  \/ ResetAll

ApiNext ==
  \/ \E f \in ApiFiles : ApiPreview(f)
  \/ \E t \in 1..nextTok, m \in {"append", "overwrite"} : ApiCommit(t, m)

ServerNext ==
  \/ \E r \in reqs : ServePreview(r)
  \/ \E r \in reqs : CommitReject(r)
  \/ \E r \in reqs : CommitExpired(r)
  \/ \E r \in reqs : CommitBegin(r)
  \/ \E r \in reqs : CommitWrite(r)
  \/ \E r \in reqs : CommitFail(r)
  \/ \E r \in reqs : CommitFinish(r)

Next == WizardNext \/ ApiNext \/ ServerNext \/ DoMatch

Spec == Init /\ [][Next]_vars

-----------------------------------------------------------------------------
(* Specification of the manual input table: one session typing rows and     *)
(* generating the file, up to the preview request                           *)

InitManual ==
  /\ WizardInit /\ NetInit /\ ServerInit /\ BuildDefault
  /\ mIn = <<>> /\ mOut = <<>>
  /\ ScanIdle
  /\ ManualIdle /\ SideIdle
  /\ driver = "manual"
  /\ dataTable = PriorRows
  /\ storageSchema = StorageNoMNA

NextManual ==
  \/ EnterManual
  \/ BackToUpload
  \/ \E idx \in 1..MaxManualRows, c \in CellInputs : updateManualCell(idx, c[1], c[2])
  \/ addManualRow
  \/ \E idx \in 1..MaxManualRows : removeManualRow(idx)
  \/ SubmitManual
  \/ ResetAll

SpecManual == InitManual /\ [][NextManual]_vars

-----------------------------------------------------------------------------
(* Specification of the MachineLearning page: one mount of the page, its    *)
(* two lists arriving in either order                                       *)

InitML ==
  /\ WizardInit /\ NetInit /\ ServerInit /\ BuildDefault
  /\ mIn = <<>> /\ mOut = <<>>
  /\ ScanIdle
  /\ ManualIdle /\ SideIdle
  /\ driver = "ml"
  /\ dataTable = <<>>
  /\ storageSchema = StorageNoMNA

NextML ==
  \/ \E cols \in RfLists : LoadRfColumns(cols)
  \/ LoadRfColumnsFails
  \/ \E items \in SymptomLists : LoadSymptoms(items)
  \/ \E thrown \in BOOLEAN : LoadSymptomsFails(thrown)
  \/ \E q \in SearchTexts : SetRfSearch(q)

SpecML == InitML /\ [][NextML]_vars

-----------------------------------------------------------------------------
(* Specification of the edit dialog: one session on the existing-symptoms   *)
(* tab, against the Taxonomy Store, each saveEdit up to the request of the  *)
(* scan it ends with                                                        *)

InitEdit ==
  /\ WizardInit /\ NetInit /\ ServerInit /\ BuildDefault
  /\ mIn = <<>> /\ mOut = <<>>
  /\ ManualIdle /\ SideIdle
  /\ driver = "edit"
  /\ dataTable = <<>>
  /\ storageSchema = StorageNoMNA
  /\ result = <<>> /\ missingTypes = <<>> /\ selections = <<>>
  /\ page = 1 /\ pageSize = 25 /\ insertLoading = FALSE
  /\ autoRefresh = TRUE /\ refreshing = FALSE
  /\ tickClosure = <<>> /\ scans = {} /\ saving = <<>> /\ nextScan = 1
  /\ symptomTable = EditSymptomTable

NextEdit ==
  \/ FetchExisting
  \/ \E i \in 1..Len(EditSymptomTable) : openEdit(i)
  \/ closeEdit
  \/ \E n \in EditNames : SetEditName(n)
  \/ \E c \in Categories \cup {0} : SetEditCategory(c)
  \/ saveEditStart
  \/ ServeRename
  \/ saveEditAfterRename
  \/ ServeEditUpdate
  \/ saveEditFinish
  \/ saveEditFails

SpecEdit == InitEdit /\ [][NextEdit]_vars

-----------------------------------------------------------------------------
(* Specification of the API client: requests sent with any token stored     *)

InitClient ==
  /\ WizardInit /\ NetInit /\ ServerInit /\ BuildDefault
  /\ mIn = <<>> /\ mOut = <<>>
  /\ ScanIdle
  /\ ManualIdle /\ MLIdle
  /\ existingItems = <<>> /\ editModal = <<>> /\ editFlight = <<>>
  /\ ExtraIdle
  /\ driver = "client"
  /\ dataTable = <<>>
  /\ storageSchema = StorageNoMNA
  /\ authState = defaultState /\ authPhase = "constructed"
  /\ lsState = <<>> /\ lsRemember = FALSE
  /\ lsToken \in {0} \cup DOMAIN TokenUser
  /\ location = "/" /\ lastAuthOp = "none"

NextClient ==
  \/ \E tok \in {0} \cup DOMAIN TokenUser : \E r \in RequestsWith(tok) : SendRequest(r)
  \/ \E t \in {0} \cup DOMAIN TokenUser : setAuthToken(t)

SpecClient == InitClient /\ [][NextClient]_vars

-----------------------------------------------------------------------------
(* Specification of the PowerBIEmbed page                                   *)

InitEmbed ==
  /\ WizardInit /\ NetInit /\ ServerInit /\ BuildDefault
  /\ mIn = <<>> /\ mOut = <<>>
  /\ ScanIdle
  /\ ManualIdle /\ MLIdle /\ AuthIdle
  /\ existingItems = <<>> /\ editModal = <<>> /\ editFlight = <<>>
  /\ SearchIdle /\ ClientIdle /\ RefreshIdle
  /\ driver = "embed"
  /\ dataTable = <<>>
  /\ storageSchema = StorageNoMNA
  /\ embedPhase = "unmounted"
  /\ embedUrl = <<>> /\ embedLoading = FALSE /\ embedError = ""
  /\ embedAnswer = <<>> /\ cachedAtMount = <<>>
  /\ lsEmbedUrl \in EmbedUrls \cup {<<>>}
  /\ envUrl \in EmbedUrls \cup {<<>>}
  /\ httpsPage \in BOOLEAN

NextEmbed ==
  \/ MountEmbed
  \/ \E url \in EmbedUrls \cup {<<>>}, stored \in BOOLEAN : EmbedResolves(url, stored)
  \/ \E msg \in {"", "API Error"}, stored \in BOOLEAN : EmbedRejects(msg, stored)
  \/ UnmountEmbed

SpecEmbed == InitEmbed /\ [][NextEmbed]_vars

-----------------------------------------------------------------------------
(* Specification of the Power BI refresh context                            *)

InitRefresh ==
  /\ WizardInit /\ NetInit /\ ServerInit /\ BuildDefault
  /\ mIn = <<>> /\ mOut = <<>>
  /\ ScanIdle
  /\ ManualIdle /\ MLIdle /\ AuthIdle
  /\ existingItems = <<>> /\ editModal = <<>> /\ editFlight = <<>>
  /\ SearchIdle /\ ClientIdle /\ EmbedIdle
  /\ driver = "refresh"
  /\ dataTable = <<>>
  /\ storageSchema = StorageNoMNA
  /\ refreshStatus = "idle" /\ todayCount = -1
  /\ esRef = 0 /\ finishedRef = FALSE
  /\ notifications = <<>> /\ triggers = 0
  /\ awaiting = {MountQuery}
  /\ nextEs = 1 /\ esTerminal = "" /\ reloadTimer = FALSE
  /\ applied = 0 /\ suppressed = FALSE

NextRefresh ==
  \/ triggerRefresh
  \/ \E ok \in BOOLEAN : startEs(ok)
  \/ \E payload \in StreamStatuses, onDashboard \in BOOLEAN :
       StatusEvent(payload, onDashboard)
  \/ ErrorEvent
  \/ \E es \in 1..MaxRefreshes, n \in QuotaCounts \cup {-1}, onDashboard \in BOOLEAN :
       QuotaAnswer([kind |-> "status", es |-> es], n, onDashboard)
  \/ \E es \in 1..MaxRefreshes, latest \in {"Completed", "Failed", "Unknown", ""},
        n \in QuotaCounts \cup {-1}, onDashboard \in BOOLEAN :
       FallbackAnswer([kind |-> "error", es |-> es], latest, n, onDashboard)
  \/ \E n \in QuotaCounts \cup {-1} : MountAnswer(n)
  \/ PageReload

SpecRefresh == InitRefresh /\ [][NextRefresh]_vars

-----------------------------------------------------------------------------
(* Specification of the search of the existing symptoms: one session on the *)
(* existing-symptoms tab, the whole list shown                              *)

InitSearch ==
  /\ WizardInit /\ NetInit /\ ServerInit /\ BuildDefault
  /\ mIn = <<>> /\ mOut = <<>>
  /\ ManualIdle /\ MLIdle /\ AuthIdle
  /\ driver = "search"
  /\ dataTable = <<>>
  /\ storageSchema = StorageNoMNA
  /\ result = <<>> /\ missingTypes = <<>> /\ selections = <<>>
  /\ page = 1 /\ pageSize = 25 /\ insertLoading = FALSE
  /\ autoRefresh = TRUE /\ refreshing = FALSE
  /\ tickClosure = <<>> /\ scans = {} /\ saving = <<>> /\ nextScan = 1
  /\ symptomTable = EditSymptomTable
  /\ existingItems = EditSymptomTable /\ editModal = <<>> /\ editFlight = <<>>
  /\ SearchIdle /\ ClientIdle /\ EmbedIdle /\ RefreshIdle

NextSearch ==
  \/ \E t \in SearchBoxTexts : TypeSearch(t)
  \/ DebounceFire
  \/ \E r \in searchReqs : ServeSearch(r)
  \/ \E r \in searchReqs : SearchAnswer(r)
  \/ \E r \in searchReqs : SearchFails(r)

SpecSearch == InitSearch /\ [][NextSearch]_vars

-----------------------------------------------------------------------------
(* Specification of the upload ceiling: one wizard session in a build with  *)
(* any value of VITE_MAX_UPLOAD_MB, dropping files of 1, 60 and 101 MB      *)

UploadFiles == {FileGood, FileBig, FileHuge}

InitUpload ==
  /\ WizardInit /\ NetInit /\ ServerInit
  /\ maxUploadRaw \in MaxUploadRaws
  /\ mIn = <<>> /\ mOut = <<>>
  /\ ScanIdle
  /\ ManualIdle /\ SideIdle
  /\ driver = "upload"
  /\ dataTable = PriorRows
  /\ storageSchema = StorageNoMNA

NextUpload ==
  \/ \E f \in UploadFiles : DropFile(f)
  \/ \E r \in reqs : ServePreview(r)
  \/ \E d \in resps : DeliverPreview(d)
  \/ PreviewBack
  \/ ResetAll

SpecUpload == InitUpload /\ [][NextUpload]_vars

-----------------------------------------------------------------------------
(* Specification of the application shell: one page load over any           *)
(* localStorage an earlier session can have left, at any path               *)

InitAuth ==
  /\ WizardInit /\ NetInit /\ ServerInit /\ BuildDefault
  /\ mIn = <<>> /\ mOut = <<>>
  /\ ScanIdle
  /\ ManualIdle
  /\ MLIdle
  /\ existingItems = <<>> /\ editModal = <<>> /\ editFlight = <<>>
  /\ ExtraIdle
  /\ driver = "auth"
  /\ dataTable = <<>>
  /\ storageSchema = StorageNoMNA
  /\ lsState \in {<<>>} \cup {<<a>> : a \in AuthStates}
  /\ lsRemember \in BOOLEAN
  /\ lsToken \in {0} \cup DOMAIN TokenUser
  /\ authState = IF lsState = <<>> THEN defaultState ELSE lsState[1]
  /\ authPhase = "constructed"
  /\ location \in Paths
  /\ lastAuthOp = "none"

NextAuth ==
  \/ MountAuth
  \/ \E u \in BackendUsers : VerifyAnswer(<<u>>)
  \/ VerifyAnswer(<<>>)
  \/ \E u \in BackendUsers, rememberMe \in BOOLEAN :
        \E tok \in {0, TokenOf(u)} : login(u.username, u.role, tok, rememberMe)
  \/ logout
  \/ Reload
  \/ \E p \in Paths : OpenPath(p)
  \/ FollowNavigate

SpecAuth == InitAuth /\ [][NextAuth]_vars

TypeOK ==
  /\ step \in {"select", "preview", "mode", "importing", "done", "manual"}
  /\ mode \in {"append", "overwrite"}
  /\ token \in 0..MaxRequests
  /\ lock \in 0..(MaxRequests + MaxApiCalls)
  /\ driver \in {"wizard", "api", "matcher", "scan", "manual", "ml", "edit", "upload", "auth",
                "search", "client", "embed", "refresh"}

-----------------------------------------------------------------------------
(* Specification of the worklist page: one session, from the mount of the   *)
(* page, against the Taxonomy Reconciler backend                            *)

\* after the first render: handleScan is in flight and the countdown runs
InitScan ==
  /\ WizardInit /\ NetInit /\ ServerInit /\ BuildDefault
  /\ mIn = <<>> /\ mOut = <<>>
  /\ ManualIdle /\ SideIdle
  /\ driver = "scan"
  /\ dataTable = <<>>
  /\ storageSchema = StorageNoMNA
  /\ result = <<>> /\ missingTypes = <<>> /\ selections = <<>>
  /\ page = 1 /\ pageSize = 25 /\ insertLoading = FALSE
  /\ autoRefresh = TRUE /\ refreshing = FALSE
  /\ tickClosure = <<[result |-> <<>>, refreshing |-> FALSE]>>
  /\ scans = {[id |-> 1, kind |-> "scan", cur |-> <<>>, phase |-> 0,
               missing |-> <<>>, unassigned |-> <<>>, store |-> <<>>]}
  /\ saving = <<>> /\ nextScan = 2
  /\ symptomTable = InitialSymptomTable

NextScan ==
  \/ HandleScanStart
  \/ RefreshNow
  \/ CountdownFire
  \/ \E s \in scans : ServeMissing(s)
  \/ \E s \in scans : ServeUnassigned(s)
  \/ \E s \in scans : ScanFails(s)
  \/ \E s \in scans : HandleScanFinish(s)
  \/ \E s \in scans : SilentScanFinish(s)
  \/ \E s \in WorkedItems, c \in Categories \cup {0} : SetSelection(s, c)
  \/ \E s \in WorkedItems : HandleSaveSingleStart(s)
  \/ ServeSave
  \/ HandleSaveSingleFinish
  \/ HandleSaveSingleFails
  \/ \E ps \in PickedPageSizes :
        \E p \in 1..TotalPages(Len(missingItems), ps) : ChangePagination(p, ps)
  \/ \E v \in BOOLEAN : SetAutoRefresh(v)

SpecScan == InitScan /\ [][NextScan]_vars

-----------------------------------------------------------------------------
(* Specification of the worklist page's polling: one session, from the end  *)
(* of the handleScan of the mount, the worklist shown                       *)

\* the worklist the handleScan of the mount obtains
MountList ==
  MergedList(UnassignedItems(InitialSymptomTable), MissingNew(InitialSymptomTable))

\* after the handleScan of the mount: the countdown runs with the callback
\* of the first render
InitPoll ==
  /\ WizardInit /\ NetInit /\ ServerInit /\ BuildDefault
  /\ mIn = <<>> /\ mOut = <<>>
  /\ ManualIdle /\ SideIdle
  /\ driver = "scan"
  /\ dataTable = <<>>
  /\ storageSchema = StorageNoMNA
  /\ result = <<MountList>>
  /\ missingTypes = TypeMap(MountList, UnassignedItems(InitialSymptomTable))
  /\ selections = [x \in Range(MountList) |-> 0]
  /\ page = 1 /\ pageSize = 25 /\ insertLoading = FALSE
  /\ autoRefresh = TRUE /\ refreshing = FALSE
  /\ tickClosure = <<[result |-> <<>>, refreshing |-> FALSE]>>
  /\ scans = {}
  /\ saving = <<>> /\ nextScan = 1
  /\ symptomTable = InitialSymptomTable

NextPoll ==
  \/ RefreshNow
  \/ CountdownFire
  \/ \E s \in scans : ServeMissing(s)
  \/ \E s \in scans : ServeUnassigned(s)
  \/ \E s \in scans : ScanFails(s)
  \/ \E s \in scans : SilentScanFinish(s)
  \/ \E v \in BOOLEAN : SetAutoRefresh(v)

SpecPoll == InitPoll /\ [][NextPoll]_vars

-----------------------------------------------------------------------------
(* Properties of the import pipeline                                       *)

\* the request a response of this step answers
ReqOf(d) == CHOOSE r \in reqs : r.id = d.id

\* rows of the file previewed under token t
FileRows(t) == RowsOf(issued[t].filename, issued[t].nrows)

\* C1: once a commit with a token has succeeded, every later commit answered
\* for that token is rejected with TokenInvalid and changes no stored row,
\* and no transaction is opened for it again
C1_TokenCommitsAtMostOnce ==
  [][/\ \A d \in resps' \ resps :
          (d.kind = "commit" /\ ReqOf(d).token \in committed)
            => (~d.ok /\ d.error = "TokenInvalid" /\ dataTable' = dataTable)
     /\ \A id \in DOMAIN txn' \ DOMAIN txn : txn'[id].token \notin committed]_vars

\* the wizard has re-sent the token of a finished import and got TokenInvalid
C1_Witness ==
  /\ Wizard /\ token \in committed
  /\ \E d \in resps : d.kind = "commit" /\ d.error = "TokenInvalid"

\* C3: the wizard sends an overwrite commit only while the confirmation box,
\* ticked after overwrite was last selected, is still ticked; with mode
\* overwrite and no confirmation it sends no commit at all
C3_OverwriteNeedsConfirmation ==
  [][Wizard =>
       /\ \A r \in reqs' \ reqs :
            (r.kind = "commit" /\ r.mode = "overwrite")
              => (overwriteConfirmed /\ tickedSinceSelect)
       /\ (mode = "overwrite" /\ ~overwriteConfirmed)
            => \A r \in reqs' \ reqs : r.kind # "commit"]_vars

\* a confirmed overwrite commit is in flight
C3_Witness ==
  /\ Wizard /\ overwriteConfirmed
  /\ \E r \in reqs : r.kind = "commit" /\ r.mode = "overwrite"

\* C4: the wizard never sends a commit for a preview whose can_import is
\* false; a commit presenting the token of such a preview is answered with
\* an error, SchemaIncomplete unless the token expired at that access, and
\* writes nothing: data table, transactions and (unless expired) the cached
\* dataset are unchanged
C4_SchemaIncompleteRejected ==
  [][/\ \A r \in reqs' \ reqs :
          (Wizard /\ r.kind = "commit") => issued[r.token].can_import
     /\ \A d \in resps' \ resps :
          (d.kind = "commit" /\ TokenValid(ReqOf(d).token)
             /\ ~issued[ReqOf(d).token].can_import)
            => /\ ~d.ok
               /\ dataTable' = dataTable /\ txn' = txn
               /\ \/ d.error = "SchemaIncomplete" /\ cache' = cache
                  \/ d.error = "TokenInvalid" /\ ReqOf(d).token \notin DOMAIN cache'
     /\ \A id \in DOMAIN txn' \ DOMAIN txn : issued[txn'[id].token].can_import]_vars

\* a commit was rejected as SchemaIncomplete and its dataset is still cached
C4_Witness ==
  \E d \in resps : d.kind = "commit" /\ d.error = "SchemaIncomplete"

\* C5: in every preview answer, in the preview the wizard holds and in every
\* matcher result, can_import is true exactly when missing_in_csv is empty,
\* whatever missing_in_db is
C5_CanImportIffNoMissingCsv ==
  /\ \A d \in resps :
       (d.kind = "preview" /\ d.ok) => (d.can_import <=> d.missing_in_csv = <<>>)
  /\ token # 0 => (canImport <=> missingCsv = <<>>)
  /\ mOut # <<>> => (mOut[1].can_import <=> mOut[1].missing_in_csv = <<>>)

\* the wizard holds an importable preview although the data table lacks a column
C5_Witness ==
  token # 0 /\ canImport /\ missingCsv = <<>> /\ missingDb # <<>>

\* C6: a commit answered as successful in mode overwrite leaves exactly the
\* parsed rows of its file in the data table
C6_OverwriteLeavesFileRows ==
  [][\A d \in resps' \ resps :
       (d.kind = "commit" /\ d.ok /\ ReqOf(d).mode = "overwrite")
         => /\ dataTable' = FileRows(ReqOf(d).token)
            /\ Len(dataTable') = issued[ReqOf(d).token].nrows]_vars

\* two commits have succeeded and the table holds one file only: the later
\* one was an overwrite of a table that was not empty
C6_Witness ==
  /\ Cardinality(committed) = 2
  /\ \E d \in resps : d.kind = "commit" /\ d.ok
  /\ \E t \in committed : dataTable = FileRows(t)

\* C7: a commit answered as successful in mode append leaves the prior M
\* rows in place followed by the N parsed rows of its file
C7_AppendKeepsAndAdds ==
  [][\A d \in resps' \ resps :
       (d.kind = "commit" /\ d.ok /\ ReqOf(d).mode = "append")
         => /\ dataTable' = dataTable \o FileRows(ReqOf(d).token)
            /\ Len(dataTable') = Len(dataTable) + issued[ReqOf(d).token].nrows]_vars

\* an append has succeeded on a table holding prior rows
C7_Witness ==
  /\ committed # {} /\ Len(dataTable) > MaxPriorRows
  /\ dataTable[1] = PriorRows[1]
  /\ \E d \in resps : d.kind = "commit" /\ d.ok

\* C8: a commit that fails leaves the data table as it was; the table
\* changes only in the step that answers a commit as successful, never to a
\* state holding part of a file; the inserted count answered is the number
\* of rows of that commit visible afterwards
C8_CommitAllOrNothing ==
  [][/\ \A d \in resps' \ resps :
          (d.kind = "commit" /\ ~d.ok) => dataTable' = dataTable
     /\ \A d \in resps' \ resps :
          (d.kind = "commit" /\ d.ok)
            => /\ d.inserted = issued[ReqOf(d).token].nrows
               /\ d.inserted <= Len(dataTable')
               /\ SubSeq(dataTable', Len(dataTable') - d.inserted + 1,
                         Len(dataTable')) = FileRows(ReqOf(d).token)
     /\ dataTable' # dataTable
          => \E d \in resps' \ resps : d.kind = "commit" /\ d.ok]_vars

\* a commit failed after some of its rows had been written
C8_Witness ==
  /\ \E d \in resps : d.kind = "commit" /\ d.error = "StorageFailure"
  /\ \E t \in DOMAIN issued : issued[t].nrows = 2 /\ t \notin committed
  /\ txn = <<>> /\ dataTable = PriorRows /\ nextReq = 3

\* C9: commits on the data table are serialized: at most one transaction is
\* open, and every change of the table is one whole commit applied to the
\* table as it stands (truncate and inserts of an overwrite, or the inserts
\* of an append), so no commit's rows land inside another's
C9_CommitsSerialize ==
  [][/\ Cardinality(DOMAIN txn') <= 1
     /\ dataTable' # dataTable
          => \E id \in DOMAIN txn :
               dataTable' = (IF txn[id].mode = "overwrite" THEN <<>> ELSE dataTable)
                              \o txn[id].rows]_vars

\* a second commit waits while another holds the table
C9_Witness ==
  /\ lock # 0
  /\ \E r \in reqs : r.kind = "commit" /\ r.id \notin DOMAIN txn
                     /\ TokenValid(r.token) /\ cache[r.token].can_import

\* C10: a canonical column is matched whenever the header holds a spelling
\* that differs from it only by case, surrounding blanks and blank versus
\* underscore, mapped to that header; it is in missing_in_csv exactly when
\* the header holds no such spelling
C10_MatchInsensitive ==
  mOut # <<>> =>
    \A i \in 1..Len(manualColumns) :
      LET k == VariedPos(i)
          ch == IF k = 0 THEN 4 ELSE mIn[1][k]
          spelled == ch = 4 \/ (ch \in 1..3 /\ Spellings[k][ch].same)
          missing == \E j \in 1..Len(mOut[1].missing_in_csv) :
                       mOut[1].missing_in_csv[j] = manualColumns[i]
      IN /\ missing <=> ~spelled
         /\ spelled => mOut[1].csv_to_expected[i] =
                         (IF ch = 4 THEN manualColumns[i] ELSE Spellings[k][ch].text)

\* ' PersonID ', 'start_date' and 'AGE' have been matched
C10_Witness ==
  /\ mOut # <<>> /\ MaxVaried >= 3
  /\ mIn[1][1] = 1 /\ mIn[1][2] = 1 /\ mIn[1][3] = 1
  /\ mOut[1].can_import

-----------------------------------------------------------------------------
(* Properties of the worklist page                                         *)

\* C2: a silentScan that ends with a scan whose key set equals the key set
\* of the worklist shown changes none of missing_items, the classification
\* map, the category selections and the page
C2_PollingDiffRule ==
  [][\A s \in scans \ scans' :
       (s.kind = "silent" /\ s.phase = 2
          /\ KeySet(MergedList(s.unassigned, s.missing)) = KeySet(missingItems))
         => /\ ItemsOf(result') = ItemsOf(result)
            /\ missingTypes' = missingTypes
            /\ selections' = selections
            /\ page' = page]_vars

-----------------------------------------------------------------------------
(* Properties of the manual input table                                     *)

\* every text of at most MaxRiskLen characters over a letter, the blank and
\* the two commas
RiskTexts ==
  UNION {[1..n -> {"a", " ", ",", FullWidthComma}] : n \in 0..MaxRiskLen}

\* the text without the characters of drop
Strip(s, drop) == LET kept(c) == c \notin drop IN SelectSeq(s, kept)

RECURSIVE Flatten(_)
Flatten(parts) == IF parts = <<>> THEN <<>> ELSE Head(parts) \o Flatten(Tail(parts))

\* starts of the stretches between plain commas that hold more than blanks
LiveSegments(v) ==
  {p \in 1..(Len(v) + 1) :
     /\ p = 1 \/ v[p - 1] = ","
     /\ \E q \in p..Len(v) :
          /\ v[q] \notin {" ", ","}
          /\ \A k \in p..q : v[k] # ","}

\* the tokens of v are its stretches between plain commas, trimmed, the blank
\* ones dropped; a full-width comma stays inside its token
SplitsOnPlainCommaOnly(v) ==
  LET tokens == formatMRiskFactors(v)
  IN /\ Len(tokens) = Cardinality(LiveSegments(v))
     /\ \A i \in 1..Len(tokens) :
          /\ tokens[i] # <<>>
          /\ ~Includes(tokens[i], ",")
          /\ Head(tokens[i]) # " " /\ tokens[i][Len(tokens[i])] # " "
     /\ Strip(Flatten(tokens), {" "}) = Strip(v, {" ", ","})

SplitsAllRiskTexts == \A v \in RiskTexts : SplitsOnPlainCommaOnly(v)

\* C11: risk-factor text is split on the plain comma only, tokens trimmed and
\* empty tokens dropped, the full-width comma never separating; a row whose
\* M-Risk Factors cell holds a full-width comma carries a format error and
\* keeps 'Generate & Preview' from sending until the cell is corrected
C11_PlainCommaOnly ==
  /\ [](/\ SplitsAllRiskTexts
        /\ \A i \in 1..Len(manualRows) :
             /\ SplitsOnPlainCommaOnly(manualRows[i].risk)
             /\ Includes(manualRows[i].risk, FullWidthComma)
                  => (manualErrors[i].risk # NoError /\ ~canSubmit))
  /\ [][reqs' # reqs =>
          \A i \in 1..Len(manualRows) :
            ~Includes(manualRows[i].risk, FullWidthComma)]_vars

\* after an earlier submission, a table is blocked by nothing but the
\* full-width comma typed into a risk-factor cell
C11_Witness ==
  /\ driver = "manual" /\ nextReq > 1 /\ ~canSubmit
  /\ \E i \in 1..Len(manualRows) :
       /\ Includes(manualRows[i].risk, FullWidthComma)
       /\ manualErrors[i].risk # NoError
  /\ \A i \in 1..Len(manualRows) :
       /\ Trim(manualRows[i].age) # <<>> /\ manualErrors[i].age = NoError
       /\ Includes(manualRows[i].risk, FullWidthComma)
            \/ manualErrors[i].risk = NoError

-----------------------------------------------------------------------------
(* Properties of the worklist produced by a scan                            *)

\* display strings the two answers of a scan are drawn from
AnswerStrings ==
  { <<"a", "x">>, <<"A", "x">>, <<" ", "a", "x", " ">>, <<"B", "x">>,
    <<"b", "x">>, <<" ">> }

\* answers of at most two items
AnswerLists == UNION {[1..n -> AnswerStrings] : n \in 0..2}

\* the keys of a list are pairwise distinct
KeysDistinct(list) ==
  \A i, j \in 1..Len(list) :
    i # j => ToLowerCase(Trim(list[i])) # ToLowerCase(Trim(list[j]))

\* first string of list with the key k, trimmed
FirstWithKey(list, k) ==
  Trim(list[CHOOSE i \in 1..Len(list) :
              /\ ToLowerCase(Trim(list[i])) = k
              /\ \A j \in 1..(i - 1) : ToLowerCase(Trim(list[j])) # k])

\* the worklist handleScan builds from the answers u (unassigned symptoms of
\* the Store) and m (terms of the records): one item per key, the Store's
\* string where the Store has the key, existing_null exactly for Store keys
MergeIsSound(u, m) ==
  LET merged == MergedList(u, m)
      types == TypeMap(merged, u)
      ukeys == {ToLowerCase(Trim(u[i])) : i \in 1..Len(u)} \ {<<>>}
      mkeys == {ToLowerCase(Trim(m[i])) : i \in 1..Len(m)} \ {<<>>}
  IN /\ KeysDistinct(merged)
     /\ {ToLowerCase(merged[i]) : i \in 1..Len(merged)} = ukeys \cup mkeys
     /\ \A i \in 1..Len(merged) :
          LET k == ToLowerCase(merged[i])
          IN /\ merged[i] = IF k \in ukeys THEN FirstWithKey(u, k)
                                            ELSE FirstWithKey(m, k)
             /\ types[merged[i]] = IF k \in ukeys THEN "existing_null" ELSE "new"

MergeSoundOnAllAnswers == \A u \in AnswerLists, m \in AnswerLists : MergeIsSound(u, m)

\* rows of the Symptom table with the key of a worklist item
RowsWithKey(table, item) ==
  {i \in 1..Len(table) : SymptomKey(table[i].symptom) = SymptomKey(item)}

\* C12: the worklist handleScan produces holds every key at most once, holds
\* no symptom the Store (as the scan read it) has categorized, classifies an
\* item existing_null exactly when the Store holds its key without category
\* and new otherwise, and lists the Store's display string for a Store key
C12_ScanWorklist ==
  /\ []MergeSoundOnAllAnswers
  /\ [][\A s \in scans \ scans' :
          (s.kind = "scan" /\ s.phase = 2) =>
            LET list == ItemsOf(result')
            IN /\ KeysDistinct(list)
               /\ DOMAIN missingTypes' = Range(list)
               /\ \A i \in 1..Len(list) :
                    LET rows == RowsWithKey(s.store, list[i])
                    IN /\ \A r \in rows : s.store[r].category = 0
                       /\ missingTypes'[list[i]] =
                            (IF rows # {} THEN "existing_null" ELSE "new")
                       /\ \A r \in rows : list[i] = Trim(s.store[r].symptom)]_vars

\* a scan has listed 'ax' as the Store spells it, existing_null, although the
\* records spell it 'Ax', and 'Bx' as new
C12_Witness ==
  /\ driver = "scan" /\ scans = {} /\ Len(missingItems) >= 2
  /\ missingItems[1] = ToLowerCase(RecordSymptom(1))
  /\ missingTypes[missingItems[1]] = "existing_null"
  /\ missingItems[2] = RecordSymptom(2)
  /\ missingTypes[missingItems[2]] = "new"

-----------------------------------------------------------------------------
(* Properties of resolving a worklist item                                  *)

\* the items of the worklist shown
Shown == Range(missingItems)

\* C13: handleSaveSingle sends a request only for an item with a category
\* chosen, to update_many for an existing_null item and to insert_many for a
\* new one; the Symptom table only gains categories that are not null; and an
\* item leaves the worklist, no scan being applied, only as the item of the
\* request that succeeded
C13_ResolveNeedsCategory ==
  [][/\ (saving = <<>> /\ saving' # <<>>) =>
          LET item == saving'[1].symptom
          IN /\ item \in Shown
             /\ selections[item] # 0
             /\ saving'[1].category = selections[item]
             /\ missingTypes[item] = "existing_null" => saving'[1].endpoint = "update_many"
             /\ missingTypes[item] = "new" => saving'[1].endpoint = "insert_many"
     /\ symptomTable' # symptomTable =>
          /\ saving # <<>> /\ saving[1].category # 0
          /\ Len(symptomTable') >= Len(symptomTable)
          /\ \A i \in 1..Len(symptomTable') :
               \/ i <= Len(symptomTable) /\ symptomTable'[i] = symptomTable[i]
               \/ /\ symptomTable'[i].symptom = saving[1].symptom
                  /\ symptomTable'[i].category = saving[1].category
                  /\ i <= Len(symptomTable) <=> saving[1].endpoint = "update_many"
     /\ (scans' = scans /\ result # <<>> /\ Shown \ Range(ItemsOf(result')) # {}) =>
          /\ saving # <<>> /\ saving[1].served
          /\ Shown \ Range(ItemsOf(result')) = {saving[1].symptom}]_vars

\* after the first scan alone, the existing_null item 'ax' has been updated
\* and the new item 'Bx' inserted, each with a category, and both have left
\* the worklist while the other items stay
C13_Witness ==
  /\ driver = "scan" /\ scans = {} /\ nextScan = 2 /\ saving = <<>>
  /\ \E i \in 1..Len(symptomTable) :
       symptomTable[i] = [symptom |-> ToLowerCase(RecordSymptom(1)), category |-> 1]
  /\ \E i \in 1..Len(symptomTable) :
       symptomTable[i] = [symptom |-> RecordSymptom(2), category |-> 1]
  /\ result # <<>> /\ Len(missingItems) = MaxSymptoms - 2
  /\ ToLowerCase(RecordSymptom(1)) \notin Shown /\ RecordSymptom(2) \notin Shown

-----------------------------------------------------------------------------
(* Properties of the Feature-Symptom Matcher                                *)

UrinaryId == <<"R","F","_","U","r","i","n","a","r","y","_","I","n","c","o","n","t","i","n","e","n","c","e">>
UrinarySymptom == <<"U","r","i","n","a","r","y"," ","I","n","c","o","n","t","i","n","e","n","c","e">>
UrinaryShouted == <<"U","R","I","N","A","R","Y"," "," ","I","N","C","O","N","T","I","N","E","N","C","E">>
UrinaryKey == <<"u","r","i","n","a","r","y"," ","i","n","c","o","n","t","i","n","e","n","c","e">>

\* the words of a text: its lower-cased stretches of letters and digits
WordsOf(t) ==
  LET low == ToLowerCase(t)
      seps == Range(low) \ (Range(LowerChars) \cup Digits)
      nonEmpty(w) == w # <<>>
  IN SelectSeq(Split(low, seps), nonEmpty)

RECURSIVE JoinWords(_)
JoinWords(ws) ==
  IF ws = <<>> THEN <<>>
  ELSE IF Len(ws) = 1 THEN ws[1]
  ELSE ws[1] \o <<" ">> \o JoinWords(Tail(ws))

\* the text after a leading 'RF_' in any case
AfterPrefix(s) ==
  IF Len(s) >= 3 /\ s[1] \in {"R", "r"} /\ s[2] \in {"F", "f"} /\ s[3] = "_"
  THEN SubSeq(s, 4, Len(s)) ELSE s

\* the key of a feature identifier is the words after its prefix, joined by
\* single blanks; the key of a Symptom name is its words joined the same way
KeysAsDescribed ==
  /\ \A n \in RfNames \cup {UrinaryId} : rfNormalize(n) = JoinWords(WordsOf(AfterPrefix(n)))
  /\ \A c \in SymptomChoices : normalize(c.symptom) = JoinWords(WordsOf(c.symptom))
  /\ rfNormalize(UrinaryId) = UrinaryKey
  /\ normalize(UrinarySymptom) = UrinaryKey
  /\ normalize(UrinaryShouted) = UrinaryKey

\* the Symptoms of the loaded list whose name normalizes to the key
SymptomsWithKey(key) ==
  {i \in 1..Len(symptomItems) : normalize(symptomItems[i].symptom) = key}

\* the least element of a non-empty set of numbers
Least(S) == CHOOSE i \in S : \A j \in S : i <= j

Occurrences(seq, x) == Cardinality({i \in 1..Len(seq) : seq[i] = x})

-----------------------------------------------------------------------------
(* Properties of renaming a symptom                                         *)

\* another row than old has the key of the name new
Collides(table, old, new) ==
  \E i \in 1..Len(table) :
    table[i].symptom # old /\ SymptomKey(table[i].symptom) = SymptomKey(new)

\* C16: a rename to a name another Symptom has is refused and leaves the
\* Symptom table as it was; an accepted rename changes the name of one row
\* and no category; names stay unique; after a refused rename saveEdit sends
\* no category update, changes nothing in the table and leaves the dialog open
C16_RenameCollision ==
  /\ [](\A i, j \in 1..Len(symptomTable) :
          i # j => SymptomKey(symptomTable[i].symptom) # SymptomKey(symptomTable[j].symptom))
  /\ [][/\ (editFlight # <<>> /\ editFlight[1].stage = "rename"
             /\ ~editFlight[1].answered /\ editFlight' # <<>>) =>
            LET old == editFlight[1].oldSymptom
                new == editFlight[1].name
            IN /\ Collides(symptomTable, old, new) =>
                    (~editFlight'[1].ok /\ symptomTable' = symptomTable)
               /\ editFlight'[1].ok =>
                    /\ Len(symptomTable') = Len(symptomTable)
                    /\ \E i \in 1..Len(symptomTable) :
                         symptomTable[i].symptom = old /\ symptomTable'[i].symptom = new
                    /\ \A i \in 1..Len(symptomTable) :
                         /\ symptomTable'[i].category = symptomTable[i].category
                         /\ symptomTable[i].symptom # old =>
                              symptomTable'[i] = symptomTable[i]
        /\ (editFlight # <<>> /\ editFlight[1].stage = "rename"
             /\ editFlight[1].answered /\ ~editFlight[1].ok
             /\ editFlight' # editFlight) =>
            (editFlight' = <<>> /\ editModal' = editModal /\ symptomTable' = symptomTable)
        /\ (editFlight' # <<>> /\ editFlight'[1].stage = "update"
             /\ (editFlight = <<>> \/ editFlight[1].stage # "update")) =>
            \/ editFlight = <<>> /\ editFlight'[1].name = editFlight'[1].oldSymptom
            \/ editFlight # <<>> /\ editFlight[1].stage = "rename" /\ editFlight[1].ok
       ]_vars

\* the first symptom was renamed to 'Cx' and kept its category; the rename of
\* 'Cx' to the name of the second symptom has been refused, and the dialog is
\* open
C16_Witness ==
  /\ driver = "edit" /\ nextScan = 2
  /\ symptomTable = <<[symptom |-> RecordSymptom(3), category |-> 1],
                      [symptom |-> RecordSymptom(2), category |-> 0]>>
  /\ editModal # <<>>
  /\ editFlight # <<>> /\ editFlight[1].stage = "rename"
  /\ editFlight[1].answered /\ ~editFlight[1].ok
  /\ editFlight[1].oldSymptom = RecordSymptom(3)
  /\ editFlight[1].name = RecordSymptom(2)

-----------------------------------------------------------------------------
(* Properties of the upload ceiling                                         *)

\* the ceiling of every build: the configured number when it is a positive
\* number, 100 otherwise
CeilingOf ==
  [raw \in MaxUploadRaws |->
     IF raw.set /\ Trim(raw.text) = <<"5","0">> THEN 50
     ELSE IF raw.set /\ Trim(raw.text) = <<"2","0","0">> THEN 200
     ELSE 100]

\* what a file that is refused must leave alone
UploadUntouched ==
  <<reqs, resps, nextReq, step, token, filename, totalRows, missingCsv, missingDb,
    canImport, cache, nextTok, issued>>

\* C17: the ceiling is the configured VITE_MAX_UPLOAD_MB, 100 when that is
\* unset, empty or invalid; a file above it is refused before any request: no
\* preview request and no token ever exist for it, and the refusal changes
\* neither the step, the token nor the column check of the wizard
C17_OversizeRejected ==
  /\ [](/\ \A raw \in MaxUploadRaws : ParseMaxUpload(raw) = CeilingOf[raw]
        /\ driver = "upload" =>
             /\ \A r \in reqs : r.kind = "preview" => FileNamed(r.file).size <= CeilingOf[maxUploadRaw]
             /\ \A t \in DOMAIN issued :
                  FileNamed(issued[t].filename).size <= CeilingOf[maxUploadRaw]
             /\ \A n \in rejected : FileNamed(n).size > CeilingOf[maxUploadRaw])
  /\ [][/\ rejected' # rejected => UNCHANGED UploadUntouched
        /\ \A f \in UploadFiles :
             (f.size > CeilingOf[maxUploadRaw] /\ DropFile(f)) =>
               (rejected' = rejected \cup {f.name} /\ UNCHANGED UploadUntouched)]_vars

\* in a build with the ceiling 50, after a preview of the 1 MB file and a
\* return to the first step, the files of 60 and 101 MB have been refused:
\* the wizard is at its first step with the token of that preview, and one
\* request was sent in all
C17_Witness ==
  /\ driver = "upload" /\ ParseMaxUpload(maxUploadRaw) = 50
  /\ rejected = {"big.csv", "huge.csv"}
  /\ step = "select" /\ nextReq = 2 /\ nextTok = 2 /\ reqs = {} /\ ~loading

-----------------------------------------------------------------------------
(* Properties of the application shell                                      *)

\* the page on screen: AuthProvider renders no children while it is checking,
\* and a <Navigate> shows no page
ShownPage ==
  IF ~isChecking /\ RouteElement(location, authState).kind = "page"
  THEN RouteElement(location, authState).to
  ELSE ""

\* C18: ProtectedRoute never renders protected content to an unauthenticated
\* user: in every state where isAuthenticated is false, no protected page is
\* shown, a protected route renders the redirect to /login, following that
\* redirect lands on /login, and /login shows the login page.
C18_UnauthenticatedRedirected ==
  /\ [](~authState.isAuthenticated
          => /\ ShownPage \notin ProtectedPaths
             /\ (~isChecking /\ location \in ProtectedPaths
                  => RouteElement(location, authState)
                       = [kind |-> "navigate", to |-> "/login"])
             /\ (~isChecking /\ location = "/login" => ShownPage = "/login"))
  /\ [][FollowNavigate /\ ~authState.isAuthenticated => location' = "/login"]_vars

\* after a logout on an admin route, the route renders the redirect to /login
C18_Witness ==
  /\ driver = "auth" /\ ~isChecking /\ lastAuthOp = "logout"
  /\ ~authState.isAuthenticated
  /\ location = "/import"
  /\ RouteElement(location, authState) = [kind |-> "navigate", to |-> "/login"]
  /\ ShownPage = ""

\* C19: the role-restricted routes /import and /symptoms render only for an
\* admin: an authenticated user whose role is not 'admin' gets the redirect to
\* '/' and never sees the page, an authenticated admin sees it.  (The guard
\* lets an authenticated state without a role through; every authenticated
\* state has the role of a user record, 'user' or 'admin'.)
C19_AdminRoutes ==
  /\ [](ShownPage \in AdminPaths
          => authState.isAuthenticated /\ authState.role = "admin")
  /\ [](authState.isAuthenticated => authState.role \in {"admin", "user"})
  /\ [](~isChecking /\ authState.isAuthenticated /\ location \in AdminPaths
          => IF authState.role = "admin"
             THEN ShownPage = location
             ELSE RouteElement(location, authState)
                    = [kind |-> "navigate", to |-> "/"])
  /\ [][FollowNavigate /\ authState.isAuthenticated /\ location \in AdminPaths
          => location' = "/"]_vars

\* a logged-in user of role 'user' on /symptoms gets the redirect to '/'
C19_Witness ==
  /\ driver = "auth" /\ ~isChecking /\ lastAuthOp = "login"
  /\ authState = [isAuthenticated |-> TRUE, username |-> "bob", role |-> "user"]
  /\ location = "/symptoms"
  /\ RouteElement(location, authState) = [kind |-> "navigate", to |-> "/"]
  /\ ShownPage = ""

\* login(u, r) makes isAuthenticated true with username u and role r
LoginSets ==
  [][\A u \in BackendUsers, rememberMe \in BOOLEAN : \A tok \in {0, TokenOf(u)} :
       login(u.username, u.role, tok, rememberMe)
         => authState' = [isAuthenticated |-> TRUE, username |-> u.username,
                          role |-> u.role]]_vars

\* after a logout, and until the next login, the state is the initial one and
\* neither the auth token nor the remember-me flag is stored
LogoutResets ==
  [](lastAuthOp = "logout"
       => authState = defaultState /\ lsToken = 0 /\ ~lsRemember)

\* C20 as stated: AuthContext starts unauthenticated (the first state its
\* consumers get is the initial one); login(u, r) makes isAuthenticated true
\* with username u and role r; logout returns the state to the initial one
\* and removes the stored auth token and the remember-me flag.
C20_StartsUnauthenticated ==
  /\ [][isChecking /\ ~isChecking' => authState' = defaultState]_vars
  /\ LoginSets
  /\ LogoutResets

\* C20: AuthContext starts unauthenticated, except that a page load with the
\* remember-me flag set, an authenticated stored state and a token the server
\* verifies starts authenticated as the verified user; login(u, r) makes
\* isAuthenticated true with username u and role r; logout returns the state
\* to the initial one and removes the stored auth token and the remember-me
\* flag.
C20_AuthContext ==
  /\ [][isChecking /\ ~isChecking'
          => \/ authState' = defaultState
             \/ /\ lsRemember /\ authState.isAuthenticated
                /\ authPhase = "verifying"
                /\ \E u \in BackendUsers :
                     authState' = [isAuthenticated |-> TRUE,
                                   username |-> u.username, role |-> u.role]]_vars
  /\ LoginSets
  /\ LogoutResets

\* the user has logged out: the state and the stored state are the initial
\* one, no token and no remember-me flag are stored
C20_Witness ==
  /\ driver = "auth" /\ ~isChecking /\ lastAuthOp = "logout"
  /\ authState = defaultState
  /\ lsState = <<defaultState>> /\ lsToken = 0 /\ ~lsRemember

-----------------------------------------------------------------------------
(* Properties of the import wizard's steps                                  *)

\* a commit of the wizard is in flight: sent and not yet handled
CommitPending ==
  \/ \E r \in reqs : r.kind = "commit"
  \/ \E d \in resps : d.kind = "commit"

\* C27: the wizard is in step 'importing' only while a commit request is in
\* flight and in step 'done' only after a commit has succeeded.
C27_ImportingOnlyWhileCommitting ==
  /\ [](Wizard /\ step = "importing" => CommitPending)
  /\ [](Wizard /\ step = "done" => committed # {})

\* C28: whenever handleUpload stores a new preview token, overwriteConfirmed
\* is false.
C28_ConfirmationPerUpload ==
  [][Wizard /\ token' # token /\ token' # 0 => ~overwriteConfirmed']_vars

\* the column-check state handleUpload sets
PreviewState == <<step, token, filename, totalRows, missingCsv, missingDb, canImport>>

\* C29: a failed handleUpload (file over the ceiling, or a preview answered
\* with a failure) leaves step, token, filename and column-check state
\* unchanged; a failed handleCommit sets the step to 'mode'; both end with
\* loading false; the step is 'done' only after a commit has succeeded.
C29_FailureMakesNoProgress ==
  /\ [][Wizard =>
         /\ \A d \in resps \ resps' :
              (d.kind = "preview" /\ ~d.ok)
                => PreviewState' = PreviewState /\ ~loading'
         /\ \A d \in resps \ resps' :
              (d.kind = "commit" /\ ~d.ok) => step' = "mode" /\ ~loading'
         /\ rejected' # rejected
              => PreviewState' = PreviewState /\ ~loading' /\ reqs' = reqs]_vars
  /\ [](Wizard /\ step = "done" => committed # {})

\* the commit of the held preview was answered TokenInvalid (its dataset had
\* expired) and the answer was handled: the wizard is back in step 'mode'
\* with loading off and nothing has been committed; earlier, a file over the
\* ceiling was refused
C29_Witness ==
  /\ driver = "wizard" /\ step = "mode" /\ ~loading
  /\ token # 0 /\ token \notin DOMAIN cache /\ committed = {}
  /\ reqs = {} /\ resps = {}
  /\ "huge.csv" \in rejected

-----------------------------------------------------------------------------
(* Properties of the worklist's polling                                     *)

\* the silent scans between their start and their finally block
SilentInFlight == {s \in scans : s.kind = "silent"}

\* C26: at most one silent scan is in flight at any time: while one is
\* between its start and its finally block, a countdown tick or 'Refresh Now'
\* starts no second pair of scan requests.
C26_OneSilentScan ==
  /\ [](Cardinality(SilentInFlight) <= 1)
  /\ [][SilentInFlight # {} => SilentInFlight' \subseteq SilentInFlight]_vars

-----------------------------------------------------------------------------
(* Properties of the search of the existing symptoms                        *)

\* C30: the list request sent when the text of the search box changes
\* carries the newly entered text (trimmed) as its search parameter, and when
\* the answer of the latest request arrives with the box unchanged since, the
\* table shows the results for the text in the box.
C30_SearchCarriesNewText ==
  /\ [][\A r \in searchReqs' \ searchReqs :
          r.id \notin {q.id : q \in searchReqs} => r.search = Trim(searchInner)]_vars
  /\ [][\A r \in searchReqs \ searchReqs' :
          (r.answered /\ r.id = nextSearch - 1 /\ ~debouncePending)
            => existingItems' = ListSymptoms(symptomTable, Trim(searchInner))]_vars

-----------------------------------------------------------------------------
(* Properties of the stored session                                         *)

\* the end of the check of a page load that follows a login: the token the
\* login stored is still stored, it is the token of the logged-in user, and
\* the server has not refused it
ReloadedAfterLogin ==
  /\ isChecking /\ ~isChecking'
  /\ lastAuthOp = "login"
  /\ authState.isAuthenticated
  /\ lsToken # 0 /\ TokenUser[lsToken].username = authState.username
  /\ ~(authPhase = "verifying" /\ ~authState'.isAuthenticated)

-----------------------------------------------------------------------------
(* Properties of the API client                                             *)

\* the request carries 'Authorization: Bearer <token>' for the token t
CarriesToken(r, t) ==
  /\ "headers" \in DOMAIN r.options
  /\ "Authorization" \in DOMAIN r.options.headers
  /\ r.options.headers["Authorization"] = Bearer(t)

\* C21: whenever an auth token is stored, every request the frontend sends
\* (apiGet, apiPost and apiPut with any init argument, the import preview and
\* commit requests) carries 'Authorization: Bearer <token>'.
C21_AuthorizationAlways ==
  [][(nextCall' # nextCall /\ lsToken # 0) => CarriesToken(lastRequest'[1], lsToken)]_vars

-----------------------------------------------------------------------------
(* Properties of the PowerBIEmbed page                                      *)

\* the embed-URL request is pending and no URL was cached: loading state
LoadingWhilePending ==
  (embedPhase = "pending" /\ cachedAtMount = <<>>) => EmbedView = "Loading Power BI"

\* the request failed, no cached and no environment URL: failure, no iframe
FailedWithoutUrl ==
  (embedPhase = "settled" /\ embedAnswer # <<>> /\ ~embedAnswer[1].ok
     /\ cachedAtMount = <<>> /\ envUrl = <<>>)
  => EmbedView = "Failed to load Power BI"

\* the request resolved
Resolved == embedPhase = "settled" /\ embedAnswer # <<>> /\ embedAnswer[1].ok

\* C22: PowerBIEmbed shows the loading state while the embed-URL request is
\* pending and no URL is cached, renders the iframe with src equal to the URL
\* the API returned once the request resolves, and shows 'Failed to load
\* Power BI' with no iframe when the request fails and neither a cached nor
\* an environment URL is available.
C22_EmbedStates ==
  /\ LoadingWhilePending
  /\ Resolved => (EmbedView = "iframe" /\ embedUrl = embedAnswer[1].url)
  /\ FailedWithoutUrl

\* C22 (amended): as above, but the iframe is rendered only for a returned
\* URL that is not empty and not an http URL on an https page; an empty URL
\* shows 'Failed to load Power BI', an http URL on an https page shows
\* 'Mixed content blocked', both without an iframe.
C22_EmbedStatesNonEmptyUrl ==
  /\ LoadingWhilePending
  /\ Resolved =>
       /\ embedUrl = embedAnswer[1].url
       /\ EmbedView = IF embedUrl = <<>> THEN "Failed to load Power BI"
                      ELSE IF httpsPage /\ StartsWithHttp(embedUrl)
                           THEN "Mixed content blocked"
                           ELSE "iframe"
  /\ FailedWithoutUrl

\* the request resolved with a URL other than the cached one and the iframe
\* shows the returned URL
C22_Witness ==
  /\ Resolved /\ EmbedView = "iframe"
  /\ cachedAtMount # <<>> /\ cachedAtMount # embedAnswer[1].url

-----------------------------------------------------------------------------
(* Properties of the Power BI refresh context                               *)

\* C23: for each refresh started by triggerRefresh at most one terminal
\* outcome is applied: once closeEs has run, later status or error events of
\* the refresh's stream and the listeners still waiting for a status query
\* neither change status nor raise another notification, until the next
\* refresh starts.
C23_OneTerminalOutcome ==
  /\ [](applied <= 1)
  /\ [][(finishedRef /\ finishedRef') =>
         (refreshStatus' = refreshStatus /\ notifications' = notifications)]_vars

\* a listener called closeEs after the terminal outcome and was ignored
C23_Witness ==
  /\ finishedRef /\ suppressed /\ applied = 1
  /\ refreshStatus \in {"success", "failed", "timeout", "error"}

\* C25: if the stream delivers a status event 'completed', the refresh ends
\* with status 'success', whatever the order of the status listener's quota
\* query, a stream error and its fallback status query.
C25_CompletedEndsSuccess ==
  [][(~finishedRef /\ finishedRef' /\ esTerminal = "completed")
       => refreshStatus' = "success"]_vars

====
